---- MODULE Spec2Model ----
(***************************************************************************)
(* md-replay: sequencing of pending events, the event-log codec with its   *)
(* sparse time index, range reads, and the paced replay stream.            *)
(*                                                                         *)
(* Strings are sequences of byte values, files are sequences of bytes,     *)
(* times are whole nanoseconds.                                            *)
(***************************************************************************)
EXTENDS Integers, Sequences, FiniteSets, TLC

VARIABLES
    \* ---- sequencing (core/event.rs)
    pending,      \* Vec<PendingEvent> handed to assign_sequences
    events,       \* Vec<Event> it returned
    phase,        \* where the ingest/write/read pipeline stands
    \* ---- write_log_and_index (cli/main.rs), EventLogWriter, IndexWriter
    stride,       \* IndexWriter.stride
    log,          \* bytes written through EventLogWriter.w
    woffset,      \* EventLogWriter.offset
    idx,          \* bytes written through IndexWriter.w
    seen,         \* IndexWriter.seen
    wi,           \* number of events the write loop has appended
    offs,         \* offsets returned by append, in append order
    \* ---- EventLogReader
    rpos,         \* stream position of EventLogReader.r
    header,       \* EventLogReader.header, or NoHeader before open
    readRecs,     \* ReadRecords returned by successive next_record calls
    rstatus,      \* outcome of the last reader call
    flipped,      \* the payload bit flipped on disk, or NoFlip
    \* ---- stream_with_pacing (replay/engine.rs) and its consumer
    sEvents,      \* events: Vec<Event> given to stream_with_pacing
    config,       \* ReplayConfig
    pc,           \* position of the pacing task
    si,           \* number of events the for loop has finished
    first_ts,     \* first_ts: Option<u64>
    start,        \* start: Instant
    deadline,     \* deadline of the pending sleep_until
    chan,         \* messages buffered in the mpsc channel
    rxClosed,     \* the receiver has been dropped
    sent,         \* messages accepted by tx.send: when, and whether send had to wait
    received,     \* messages the consumer has taken from the channel
    now,          \* the clock, in nanoseconds
    \* ---- callers of the library: replay, ingest, index, service, clients
    reads,        \* read_events calls made so far: arguments and result
    frames,       \* packets of the capture file given to ingest_pcap
    packet_index, \* ingest_pcap: packet_index
    ingest_order, \* ingest_pcap: ingest_order
    issues,       \* ingest_pcap: issues
    books,        \* ingest_pcap: books, a map from symbol to TopBook
    defaults,     \* ServiceState.defaults, the ReplayConfig of the server
    request,      \* the StreamRequest stream_events was called with
    tickTable,    \* TickTable: default_tick and the per-symbol ticks
    tickSymbol,   \* price_to_ticks: symbol
    tickPrice,    \* price_to_ticks: price
    tickResult,   \* what price_to_ticks returned, None before the call
    tampered,     \* the header bit changed on disk, or NoTamper
    seed,         \* verify_feature_determinism: seed
    outFiles,     \* the files at the out_paths of the verifications, None while absent
    outWrites,    \* how often each out_path was written
    verdicts,     \* what the verifications returned, with their two runs
    csvRows,      \* parse_csv_c: the records of the file at path, as RowC
    csvIdx,       \* parse_csv_c: records the loop has gone through
    csvResult,    \* what parse_csv_c returned, None while it runs
    cut           \* the length the log file was cut to on disk, None while it is whole

seqVars    == <<pending, events>>
writerVars == <<stride, log, woffset, idx, seen, wi, offs>>
readerVars == <<rpos, header, readRecs, rstatus, flipped>>
streamVars == <<sEvents, config, pc, si, first_ts, start, deadline, chan,
                rxClosed, sent, received, now>>
pcapVars   == <<frames, packet_index, ingest_order, issues, books>>
svcVars == <<defaults, request>>
tickVars == <<tickTable, tickSymbol, tickPrice, tickResult>>
headerVars == <<tampered>>
verifyVars == <<seed, outFiles, outWrites, verdicts>>
csvVars == <<csvRows, csvIdx, csvResult>>
truncVars == <<cut>>
auxVars == <<reads, pcapVars, svcVars, tickVars, headerVars, verifyVars, csvVars, truncVars>>
\* What the actions of one caller leave alone among the callers' variables.
auxButReads == <<pcapVars, svcVars, tickVars, headerVars, verifyVars, csvVars, truncVars>>
auxButPcap == <<reads, svcVars, tickVars, headerVars, verifyVars, csvVars, truncVars>>
auxButSvc == <<reads, pcapVars, tickVars, headerVars, verifyVars, csvVars, truncVars>>
auxButTick == <<reads, pcapVars, svcVars, headerVars, verifyVars, csvVars, truncVars>>
auxButHeader == <<reads, pcapVars, svcVars, tickVars, verifyVars, csvVars, truncVars>>
auxButVerify == <<reads, pcapVars, svcVars, tickVars, headerVars, csvVars, truncVars>>
auxButCsv == <<reads, pcapVars, svcVars, tickVars, headerVars, verifyVars, truncVars>>
auxButTrunc == <<reads, pcapVars, svcVars, tickVars, headerVars, verifyVars, csvVars>>
vars == <<pending, events, phase, stride, log, woffset, idx, seen, wi, offs,
          rpos, header, readRecs, rstatus, flipped, sEvents, config, pc, si,
          first_ts, start, deadline, chan, rxClosed, sent, received, now,
          reads, frames, packet_index, ingest_order, issues, books, defaults,
          request, tickTable, tickSymbol, tickPrice, tickResult, tampered,
          seed, outFiles, outWrites, verdicts, csvRows, csvIdx, csvResult,
          cut>>

(***************************************************************************)
(* Bounds of the model.                                                    *)
(***************************************************************************)
MaxPending == 3      \* longest vector given to assign_sequences
MaxLogEvents == 3    \* longest event list written to a log
MaxStride == 2       \* largest index stride tried
MaxStreamEvents == 3 \* longest event list streamed
MaxTime == 3         \* the clock stops advancing here
ChanCap == 1         \* capacity of the stream's channel in the model

(***************************************************************************)
(* Little-endian integers (to_le_bytes / from_le_bytes).                   *)
(***************************************************************************)
RECURSIVE to_le_bytes(_, _)
to_le_bytes(v, n) ==
    IF n = 0 THEN <<>> ELSE <<v % 256>> \o to_le_bytes(v \div 256, n - 1)

RECURSIVE from_le_bytes(_)
from_le_bytes(b) ==
    IF b = <<>> THEN 0 ELSE Head(b) + 256 * from_le_bytes(Tail(b))

\* i64 in two's complement: a negative v is the complement of -v-1.
i64_to_le_bytes(v) ==
    IF v >= 0 THEN to_le_bytes(v, 8)
    ELSE [k \in 1..8 |-> 255 - to_le_bytes(-v - 1, 8)[k]]

i64_from_le_bytes(b) ==
    IF b[8] < 128 THEN from_le_bytes(b)
    ELSE -from_le_bytes([k \in 1..8 |-> 255 - b[k]]) - 1

\* bytes[from .. from+n-1], 1-based
Slice(b, from, n) == SubSeq(b, from, from + n - 1)

(***************************************************************************)
(* CRC-32 (IEEE), as crc32fast computes it: reflected polynomial           *)
(* 0xEDB88320, initial value and final xor 0xFFFFFFFF.  A 32-bit word is   *)
(* kept as its four bytes, least significant first.                        *)
(***************************************************************************)
RECURSIVE XorBits(_, _, _)
XorBits(a, b, n) ==
    IF n = 0 THEN 0
    ELSE ((a + b) % 2) + 2 * XorBits(a \div 2, b \div 2, n - 1)

\* Tables are built as sequences, entry n at position n + 1.
RECURSIVE XorRow(_, _, _)
XorRow(a, lo, hi) ==
    IF lo = hi THEN <<XorBits(a, lo, 4)>>
    ELSE XorRow(a, lo, (lo + hi) \div 2) \o XorRow(a, ((lo + hi) \div 2) + 1, hi)

RECURSIVE XorRows(_, _)
XorRows(lo, hi) ==
    IF lo = hi THEN <<XorRow(lo, 0, 15)>>
    ELSE XorRows(lo, (lo + hi) \div 2) \o XorRows(((lo + hi) \div 2) + 1, hi)

NibbleXor == XorRows(0, 15)

Xor8(a, b) ==
    16 * NibbleXor[(a \div 16) + 1][(b \div 16) + 1] + NibbleXor[(a % 16) + 1][(b % 16) + 1]

Xor32(x, y) == <<Xor8(x[1], y[1]), Xor8(x[2], y[2]), Xor8(x[3], y[3]), Xor8(x[4], y[4])>>

Shr1(x) == <<(x[1] \div 2) + 128 * (x[2] % 2), (x[2] \div 2) + 128 * (x[3] % 2),
             (x[3] \div 2) + 128 * (x[4] % 2), x[4] \div 2>>

CrcPoly == <<32, 131, 184, 237>>     \* 0xEDB88320

RECURSIVE CrcRounds(_, _)
CrcRounds(x, n) ==
    IF n = 0 THEN x
    ELSE CrcRounds(IF x[1] % 2 = 1 THEN Xor32(Shr1(x), CrcPoly) ELSE Shr1(x), n - 1)

RECURSIVE CrcEntries(_, _)
CrcEntries(lo, hi) ==
    IF lo = hi THEN <<CrcRounds(<<lo, 0, 0, 0>>, 8)>>
    ELSE CrcEntries(lo, (lo + hi) \div 2) \o CrcEntries(((lo + hi) \div 2) + 1, hi)

CrcTable == CrcEntries(0, 255)

CrcStep(c, byte) ==
    Xor32(<<c[2], c[3], c[4], 0>>, CrcTable[Xor8(c[1], byte) + 1])

\* The register is read at every step, so each step is evaluated in turn.
RECURSIVE CrcUpdate(_, _, _)
CrcUpdate(c, bytes, k) ==
    IF Len(c) = 4 /\ k <= Len(bytes)
    THEN CrcUpdate(CrcStep(c, bytes[k]), bytes, k + 1)
    ELSE c

\* crc32fast::hash(&payload), as the four bytes of crc.to_le_bytes()
crc32fast_hash(bytes) ==
    Xor32(CrcUpdate(<<255, 255, 255, 255>>, bytes, 1), <<255, 255, 255, 255>>)

(***************************************************************************)
(* The event model (core/event.rs).                                        *)
(***************************************************************************)
Trade(price_ticks, size) ==
    [tag |-> "Trade", price_ticks |-> price_ticks, size |-> size]

Quote(bid_px, bid_sz, ask_px, ask_sz) ==
    [tag |-> "Quote", bid_px |-> bid_px, bid_sz |-> bid_sz,
     ask_px |-> ask_px, ask_sz |-> ask_sz]

\* PendingEvent::into_event
into_event(p, sequence) ==
    [timestamp_ns |-> p.timestamp_ns,
     sequence     |-> sequence,
     venue        |-> p.venue,
     symbol       |-> p.symbol,
     event_type   |-> IF p.payload.tag = "Trade" THEN "Trade" ELSE "Quote",
     payload      |-> p.payload]

\* Ord::cmp on u64 and on String (byte-wise lexicographic), Ordering::then_with
cmp_u64(a, b) == IF a < b THEN "Less" ELSE IF a > b THEN "Greater" ELSE "Equal"

RECURSIVE cmp_str(_, _)
cmp_str(a, b) ==
    IF a = <<>> /\ b = <<>> THEN "Equal"
    ELSE IF a = <<>> THEN "Less"
    ELSE IF b = <<>> THEN "Greater"
    ELSE IF Head(a) # Head(b) THEN cmp_u64(Head(a), Head(b))
    ELSE cmp_str(Tail(a), Tail(b))

then_with(o, next) == IF o = "Equal" THEN next ELSE o

\* Mutant of compare: the venue is left out of the key.
compare_without_venue(a, b) ==
    then_with(cmp_u64(a.timestamp_ns, b.timestamp_ns),
    then_with(cmp_u64(a.ingest_order, b.ingest_order),
              cmp_str(a.symbol, b.symbol)))

\* Mutant of compare: ingest_order is left out of the key.
compare_without_order(a, b) ==
    then_with(cmp_u64(a.timestamp_ns, b.timestamp_ns),
    then_with(cmp_str(a.symbol, b.symbol),
              cmp_str(a.venue, b.venue)))

\* The closure given to pending.sort_by in assign_sequences
compare(a, b) ==
    then_with(cmp_u64(a.timestamp_ns, b.timestamp_ns),
    then_with(cmp_u64(a.ingest_order, b.ingest_order),
    then_with(cmp_str(a.symbol, b.symbol),
              cmp_str(a.venue, b.venue))))

\* slice::sort_by is a stable sort: x goes behind every element that does
\* not compare Greater than it, and those are a prefix of a sorted vector.
insert_sorted(sorted, x) ==
    LET k == Cardinality({j \in 1..Len(sorted) : compare(sorted[j], x) # "Greater"})
    IN  SubSeq(sorted, 1, k) \o <<x>> \o SubSeq(sorted, k + 1, Len(sorted))

RECURSIVE sort_by(_)
sort_by(v) ==
    IF Len(v) <= 1 THEN v
    ELSE insert_sorted(sort_by(SubSeq(v, 1, Len(v) - 1)), v[Len(v)])

\* Mutant of assign_sequences: numbers the events from 0.
assign_sequences_from_zero(p) ==
    LET s == sort_by(p) IN [k \in 1..Len(s) |-> into_event(s[k], k - 1)]

\* Mutant of assign_sequences: the events are numbered in input order and
\* sorted afterwards.
assign_sequences_numbered_before_sort(p) ==
    LET s == sort_by([k \in 1..Len(p) |->
                        [timestamp_ns |-> p[k].timestamp_ns, venue |-> p[k].venue,
                         symbol |-> p[k].symbol, payload |-> p[k].payload,
                         ingest_order |-> p[k].ingest_order, position |-> k]])
    IN  [k \in 1..Len(s) |-> into_event(s[k], s[k].position)]

\* assign_sequences: enumerate() counts i from 0; position k of a TLA+
\* sequence is i = k - 1, and the sequence number is i + 1.
assign_sequences(p) ==
    LET s == sort_by(p) IN [k \in 1..Len(s) |-> into_event(s[k], (k - 1) + 1)]

(***************************************************************************)
(* Inputs of the model.                                                    *)
(***************************************************************************)
Timestamps   == {1, 2}
IngestOrders == {0, 1}
Symbols      == {<<65>>, <<66>>}          \* "A", "B"
Venues       == {<<88>>, <<89>>}          \* "X", "Y"
Payloads     == {Trade(5, 2), Quote(4, 1, 6, 3)}

\* Every combination but symbol "B" at venue "Y": both symbols and both
\* venues occur with every timestamp, ingest order and payload.
PendingPool ==
    {p \in [timestamp_ns : Timestamps, venue : Venues, symbol : Symbols,
            payload : Payloads, ingest_order : IngestOrders] :
        ~(p.symbol = <<66>> /\ p.venue = <<89>>)}

SeqOf(S, n) == UNION {[1..m -> S] : m \in 0..n}

\* Option<T>
None == [some |-> FALSE]
Some(v) == [some |-> TRUE, value |-> v]

NoHeader == [open |-> FALSE]
\* Outcome of a reader call: its kind, and the offset it reported (the
\* record's for Some, the error's for CrcMismatch), -1 when it reports none.
Status(kind, offset) == [kind |-> kind, offset |-> offset]
NoFlip   == [rec |-> 0, byte |-> 0, bit |-> 0]
NoTamper == [field |-> "none", byte |-> 0, bit |-> 0]
NoConfig == [from_ns |-> None, to_ns |-> None, speed |-> <<1, 1>>,
             max_speed |-> FALSE, step_mode |-> FALSE]

IdleWriter ==
    /\ stride = 1 /\ log = <<>> /\ woffset = 0 /\ idx = <<>>
    /\ seen = 0 /\ wi = 0 /\ offs = <<>>

IdleReader ==
    /\ rpos = 0 /\ header = NoHeader /\ readRecs = <<>>
    /\ rstatus = Status("closed", -1) /\ flipped = NoFlip

IdleReads == reads = <<>>

IdlePcap ==
    /\ frames = <<>> /\ packet_index = 0 /\ ingest_order = 0
    /\ issues = <<>> /\ books = <<>>

IdleSvc == defaults = NoConfig /\ request = None

IdleTick == tickTable = <<>> /\ tickSymbol = <<>> /\ tickPrice = <<>> /\ tickResult = None

IdleHeader == tampered = NoTamper

IdleVerify == seed = 0 /\ outFiles = <<>> /\ outWrites = <<>> /\ verdicts = <<>>

IdleCsv == csvRows = <<>> /\ csvIdx = 0 /\ csvResult = None

IdleTrunc == cut = None

IdleAux == IdleReads /\ IdlePcap /\ IdleSvc /\ IdleTick /\ IdleHeader /\ IdleVerify /\ IdleCsv /\ IdleTrunc
IdleButPcap == IdleReads /\ IdleSvc /\ IdleTick /\ IdleHeader /\ IdleVerify /\ IdleCsv /\ IdleTrunc
IdleButSvc == IdleReads /\ IdlePcap /\ IdleTick /\ IdleHeader /\ IdleVerify /\ IdleCsv /\ IdleTrunc
IdleButTick == IdleReads /\ IdlePcap /\ IdleSvc /\ IdleHeader /\ IdleVerify /\ IdleCsv /\ IdleTrunc
IdleButHeader == IdleReads /\ IdlePcap /\ IdleSvc /\ IdleTick /\ IdleVerify /\ IdleCsv /\ IdleTrunc
IdleButVerify == IdleReads /\ IdlePcap /\ IdleSvc /\ IdleTick /\ IdleHeader /\ IdleCsv /\ IdleTrunc
IdleButCsv == IdleReads /\ IdlePcap /\ IdleSvc /\ IdleTick /\ IdleHeader /\ IdleVerify /\ IdleTrunc
IdleButTrunc == IdleReads /\ IdlePcap /\ IdleSvc /\ IdleTick /\ IdleHeader /\ IdleVerify /\ IdleCsv

IdleStream ==
    /\ sEvents = <<>> /\ config = NoConfig /\ pc = "idle" /\ si = 0
    /\ first_ts = None /\ start = 0 /\ deadline = 0 /\ chan = <<>>
    /\ rxClosed = FALSE /\ sent = <<>> /\ received = <<>> /\ now = 0

(***************************************************************************)
(* Sequencing: any vector of pending events is given to assign_sequences.  *)
(***************************************************************************)
InitSeq ==
    /\ pending \in SeqOf(PendingPool, MaxPending)
    /\ events = <<>>
    /\ phase = "pending"
    /\ IdleWriter /\ IdleReader /\ IdleStream /\ IdleAux

AssignSequences ==
    /\ phase = "pending"
    /\ events' = assign_sequences(pending)
    /\ phase' = "sequenced"
    /\ UNCHANGED <<auxVars, pending, writerVars, readerVars, streamVars>>

NextSeq == AssignSequences

SpecSeq == InitSeq /\ [][NextSeq]_vars

Perms(v) ==
    {[k \in 1..Len(v) |-> v[p[k]]] : p \in Permutations(1..Len(v))}

\* C3: the sequence numbers of the events returned by assign_sequences are
\* exactly 1..N, each once, and N events are returned for N pending events.
C3_SequenceDensity ==
    phase = "sequenced" =>
        /\ Len(events) = Len(pending)
        /\ \A n \in 1..Len(pending) :
               Cardinality({k \in 1..Len(events) : events[k].sequence = n}) = 1

C3_Witness ==
    /\ phase = "sequenced" /\ Len(events) = 3
    /\ pending[1].timestamp_ns > pending[2].timestamp_ns
    /\ events[3].sequence = 3

\* The key (timestamp_ns, ingest_order, symbol, venue), compared
\* lexicographically.
KeyLeq(a, b) ==
    \/ a.timestamp_ns < b.timestamp_ns
    \/ /\ a.timestamp_ns = b.timestamp_ns
       /\ \/ a.ingest_order < b.ingest_order
          \/ /\ a.ingest_order = b.ingest_order
             /\ \/ cmp_str(a.symbol, b.symbol) = "Less"
                \/ /\ a.symbol = b.symbol
                   /\ cmp_str(a.venue, b.venue) # "Greater"

\* C4: the output is the input rearranged into ascending key order; the
\* event at position k (0-based k-1) has sequence k and the timestamp,
\* venue, symbol and payload of the pending event it came from.
C4_SortedByKey ==
    phase = "sequenced" =>
        \E p \in Permutations(1..Len(pending)) :
            /\ Len(events) = Len(pending)
            /\ \A k \in 1..Len(events) :
                   /\ events[k].sequence = k
                   /\ events[k].timestamp_ns = pending[p[k]].timestamp_ns
                   /\ events[k].venue = pending[p[k]].venue
                   /\ events[k].symbol = pending[p[k]].symbol
                   /\ events[k].payload = pending[p[k]].payload
            /\ \A k \in 1..(Len(events) - 1) :
                   KeyLeq(pending[p[k]], pending[p[k + 1]])

C4_Witness ==
    /\ phase = "sequenced" /\ Len(events) = 3
    /\ pending[1].timestamp_ns = pending[2].timestamp_ns
    /\ pending[1].ingest_order > pending[2].ingest_order
    /\ pending[3].timestamp_ns < pending[1].timestamp_ns
    /\ events[1].payload = pending[3].payload
    /\ events[2].symbol = pending[2].symbol

\* C5 as stated: every permutation of the input vector gives the same
\* output.
C5_PermutationInvariant ==
    phase = "sequenced" =>
        \A q \in Perms(pending) : assign_sequences(q) = events

\* Pending events that share all four key fields carry equal payloads.
KeyTiesAgree(v) ==
    \A i, j \in 1..Len(v) :
        (/\ v[i].timestamp_ns = v[j].timestamp_ns
         /\ v[i].ingest_order = v[j].ingest_order
         /\ v[i].symbol = v[j].symbol
         /\ v[i].venue = v[j].venue) => v[i].payload = v[j].payload

\* C5 amended: every permutation of the input vector gives the same output
\* when pending events that share all four key fields have equal payloads.
C5_PermutationInvariantOnAgreeingTies ==
    (phase = "sequenced" /\ KeyTiesAgree(pending)) =>
        \A q \in Perms(pending) : assign_sequences(q) = events

C5_Witness ==
    /\ phase = "sequenced" /\ Len(pending) = 3
    /\ KeyTiesAgree(pending)
    /\ pending[1] = pending[3]
    /\ pending[2].timestamp_ns < pending[1].timestamp_ns
    /\ events[1].timestamp_ns = pending[2].timestamp_ns

(***************************************************************************)
(* bincode::serialize / bincode::deserialize of an Event: fields in        *)
(* declaration order, integers little-endian at fixed width, a String as   *)
(* u64 length + bytes, an enum as u32 variant index + its fields.          *)
(***************************************************************************)
serialize_str(s) == to_le_bytes(Len(s), 8) \o s

serialize_payload(p) ==
    IF p.tag = "Trade"
    THEN to_le_bytes(0, 4) \o i64_to_le_bytes(p.price_ticks) \o i64_to_le_bytes(p.size)
    ELSE to_le_bytes(1, 4) \o i64_to_le_bytes(p.bid_px) \o i64_to_le_bytes(p.bid_sz)
                           \o i64_to_le_bytes(p.ask_px) \o i64_to_le_bytes(p.ask_sz)

\* Mutant of serialize: the symbol is written before the venue.
serialize_symbol_first(e) ==
    to_le_bytes(e.timestamp_ns, 8) \o to_le_bytes(e.sequence, 8)
        \o serialize_str(e.symbol) \o serialize_str(e.venue)
        \o to_le_bytes(IF e.event_type = "Trade" THEN 0 ELSE 1, 4)
        \o serialize_payload(e.payload)

serialize(e) ==
    to_le_bytes(e.timestamp_ns, 8) \o to_le_bytes(e.sequence, 8)
        \o serialize_str(e.venue) \o serialize_str(e.symbol)
        \o to_le_bytes(IF e.event_type = "Trade" THEN 0 ELSE 1, 4)
        \o serialize_payload(e.payload)

Failed == [ok |-> FALSE]

\* String::from_utf8 on the byte values of the model: ASCII is valid.
from_utf8_ok(b) == \A k \in 1..Len(b) : b[k] < 128

\* A String at 0-based position at of b: [ok, value, next position].
deserialize_str(b, at) ==
    IF at + 8 > Len(b) THEN Failed
    ELSE LET n == from_le_bytes(Slice(b, at + 1, 8)) IN
         IF at + 8 + n > Len(b) \/ ~from_utf8_ok(Slice(b, at + 9, n)) THEN Failed
         ELSE [ok |-> TRUE, value |-> Slice(b, at + 9, n), next |-> at + 8 + n]

deserialize_payload(b, at) ==
    IF at + 4 > Len(b) THEN Failed
    ELSE LET tag == from_le_bytes(Slice(b, at + 1, 4)) IN
         IF tag = 0 THEN
             IF at + 20 > Len(b) THEN Failed
             ELSE [ok |-> TRUE,
                   value |-> Trade(i64_from_le_bytes(Slice(b, at + 5, 8)),
                                   i64_from_le_bytes(Slice(b, at + 13, 8)))]
         ELSE IF tag = 1 THEN
             IF at + 36 > Len(b) THEN Failed
             ELSE [ok |-> TRUE,
                   value |-> Quote(i64_from_le_bytes(Slice(b, at + 5, 8)),
                                   i64_from_le_bytes(Slice(b, at + 13, 8)),
                                   i64_from_le_bytes(Slice(b, at + 21, 8)),
                                   i64_from_le_bytes(Slice(b, at + 29, 8)))]
         ELSE Failed

deserialize(b) ==
    IF Len(b) < 16 THEN Failed
    ELSE LET venue == deserialize_str(b, 16) IN
         IF ~venue.ok THEN Failed
         ELSE LET symbol == deserialize_str(b, venue.next) IN
              IF ~symbol.ok \/ symbol.next + 4 > Len(b) THEN Failed
              ELSE LET et == from_le_bytes(Slice(b, symbol.next + 1, 4))
                       pl == deserialize_payload(b, symbol.next + 4)
                   IN  IF et \notin {0, 1} \/ ~pl.ok THEN Failed
                       ELSE [ok |-> TRUE,
                             event |->
                               [timestamp_ns |-> from_le_bytes(Slice(b, 1, 8)),
                                sequence     |-> from_le_bytes(Slice(b, 9, 8)),
                                venue        |-> venue.value,
                                symbol       |-> symbol.value,
                                event_type   |-> IF et = 0 THEN "Trade" ELSE "Quote",
                                payload      |-> pl.value]]

(***************************************************************************)
(* EventLogWriter (storage/eventlog.rs).                                   *)
(***************************************************************************)
FILE_MAGIC   == <<77, 68, 69, 76, 79, 71, 48, 49>>        \* "MDELOG01"
FILE_VERSION == 1
SCHEMA_DESC  == <<101, 118, 101, 110, 116, 95, 118, 49>>  \* "event_v1"

\* crc32 of SCHEMA_DESC as u64, kept as its eight little-endian bytes
default_schema_hash == crc32fast_hash(SCHEMA_DESC) \o <<0, 0, 0, 0>>

\* The BTreeSet of the events' symbols, collected into a Vec: ascending.
RECURSIVE sorted_symbols(_)
sorted_symbols(S) ==
    IF S = {} THEN <<>>
    ELSE LET m == CHOOSE x \in S : \A y \in S : cmp_str(x, y) # "Greater"
         IN  <<m>> \o sorted_symbols(S \ {m})

RECURSIVE symbol_table(_)
symbol_table(symbols) ==
    IF symbols = <<>> THEN <<>>
    ELSE <<Len(Head(symbols))>> \o Head(symbols) \o symbol_table(Tail(symbols))

\* EventLogWriter::create: the header bytes; offset ends at their length.
create_log(symbols, schema_hash) ==
    FILE_MAGIC \o to_le_bytes(FILE_VERSION, 2) \o schema_hash
        \o to_le_bytes(Len(symbols), 4) \o symbol_table(symbols)

\* Mutant of append: the offset behind the record is returned.
append_returning_end_offset(w, offset, event) ==
    LET payload == serialize(event) IN
    [w      |-> w \o to_le_bytes(Len(payload), 4) \o crc32fast_hash(payload) \o payload,
     offset |-> offset + 8 + Len(payload),
     ret    |-> offset + 8 + Len(payload)]

\* Mutant of append: the offset counter advances by the payload length only.
append_without_prefix_in_offset(w, offset, event) ==
    LET payload == serialize(event) IN
    [w      |-> w \o to_le_bytes(Len(payload), 4) \o crc32fast_hash(payload) \o payload,
     offset |-> offset + Len(payload),
     ret    |-> offset]

\* EventLogWriter::append: [w, offset] afterwards, and the returned offset.
append(w, offset, event) ==
    LET payload == serialize(event) IN
    [w      |-> w \o to_le_bytes(Len(payload), 4) \o crc32fast_hash(payload) \o payload,
     offset |-> offset + 8 + Len(payload),
     ret    |-> offset]

(***************************************************************************)
(* IndexWriter and IndexReader (storage/index.rs).                         *)
(***************************************************************************)
IDX_MAGIC   == <<77, 68, 69, 73, 68, 88, 48, 49>>         \* "MDEIDX01"
IDX_VERSION == 1

create_index(s) == IDX_MAGIC \o to_le_bytes(IDX_VERSION, 2) \o to_le_bytes(s, 4)

\* Mutant of maybe_add: seen is incremented before the test.
maybe_add_counting_first(w, s, n, event, offset) ==
    [w    |-> IF (n + 1) % s = 0
              THEN w \o to_le_bytes(event.timestamp_ns, 8)
                     \o to_le_bytes(event.sequence, 8) \o to_le_bytes(offset, 8)
              ELSE w,
     seen |-> n + 1]

\* IndexWriter::maybe_add: [w, seen] afterwards.
maybe_add(w, s, n, event, offset) ==
    [w    |-> IF n % s = 0
              THEN w \o to_le_bytes(event.timestamp_ns, 8)
                     \o to_le_bytes(event.sequence, 8) \o to_le_bytes(offset, 8)
              ELSE w,
     seen |-> n + 1]

\* The entry loop of IndexReader::open, from 0-based position at.
RECURSIVE read_entries(_, _)
read_entries(b, at) ==
    IF at + 8 > Len(b) THEN [ok |-> TRUE, entries |-> <<>>]
    ELSE IF at + 24 > Len(b) THEN Failed
    ELSE LET rest == read_entries(b, at + 24) IN
         IF ~rest.ok THEN Failed
         ELSE [ok |-> TRUE,
               entries |->
                 <<[timestamp_ns |-> from_le_bytes(Slice(b, at + 1, 8)),
                    sequence     |-> from_le_bytes(Slice(b, at + 9, 8)),
                    byte_offset  |-> from_le_bytes(Slice(b, at + 17, 8))]>>
                 \o rest.entries]

\* IndexReader::open
open_index(b) ==
    IF Len(b) < 8 \/ Slice(b, 1, 8) # IDX_MAGIC THEN Failed
    ELSE IF Len(b) < 10 \/ from_le_bytes(Slice(b, 9, 2)) # IDX_VERSION THEN Failed
    ELSE IF Len(b) < 14 THEN Failed
    ELSE LET r == read_entries(b, 14) IN
         IF ~r.ok THEN Failed
         ELSE [ok |-> TRUE, stride |-> from_le_bytes(Slice(b, 11, 4)),
               entries |-> r.entries]

\* Mutant of partition_point: the entries before from_ns only.
partition_point_before(entries, from_ns) ==
    Cardinality({k \in 1..Len(entries) : entries[k].timestamp_ns < from_ns})

\* slice::partition_point on entries ordered by timestamp: the number of
\* leading entries with timestamp_ns <= from_ns.
partition_point(entries, from_ns) ==
    Cardinality({k \in 1..Len(entries) : entries[k].timestamp_ns <= from_ns})

\* IndexReader::seek_offset; entries[i] of the code is entries[i + 1] here.
seek_offset(entries, from_ns) ==
    IF entries = <<>> THEN None
    ELSE LET i == partition_point(entries, from_ns) IN
         IF i = 0 THEN Some(entries[0 + 1].byte_offset)
         ELSE Some(entries[(i - 1) + 1].byte_offset)

(***************************************************************************)
(* EventLogReader (storage/eventlog.rs).  Positions are 0-based offsets.   *)
(***************************************************************************)
\* The symbol loop of EventLogReader::open: n symbols from position at.
RECURSIVE read_symbols(_, _, _)
read_symbols(b, at, n) ==
    IF n = 0 THEN [ok |-> TRUE, symbols |-> <<>>, next |-> at]
    ELSE IF at + 1 > Len(b) \/ at + 1 + b[at + 1] > Len(b) THEN Failed
    ELSE LET sym  == Slice(b, at + 2, b[at + 1])
             rest == read_symbols(b, at + 1 + b[at + 1], n - 1)
         IN  IF ~from_utf8_ok(sym) \/ ~rest.ok THEN Failed
             ELSE [ok |-> TRUE, symbols |-> <<sym>> \o rest.symbols, next |-> rest.next]

\* EventLogReader::open: the header, with data_offset = the position
\* behind it; schema_hash is read and stored.
open(b) ==
    IF Len(b) < 8 \/ Slice(b, 1, 8) # FILE_MAGIC THEN Failed
    ELSE IF Len(b) < 10 \/ from_le_bytes(Slice(b, 9, 2)) # FILE_VERSION THEN Failed
    ELSE IF Len(b) < 22 THEN Failed
    ELSE LET syms == read_symbols(b, 22, from_le_bytes(Slice(b, 19, 4))) IN
         IF ~syms.ok THEN Failed
         ELSE [ok |-> TRUE, open |-> TRUE,
               version     |-> from_le_bytes(Slice(b, 9, 2)),
               schema_hash |-> Slice(b, 11, 8),
               symbols     |-> syms.symbols,
               data_offset |-> syms.next]

\* Mutant of next_record: any short read counts as the end of the log.
next_record_ending_on_any_eof(b, pos) ==
    IF pos + 4 > Len(b) THEN [kind |-> "None", next |-> IF pos > Len(b) THEN pos ELSE Len(b)]
    ELSE LET len == from_le_bytes(Slice(b, pos + 1, 4)) IN
         IF pos + 8 > Len(b) \/ pos + 8 + len > Len(b)
         THEN [kind |-> "None", next |-> Len(b)]
         ELSE LET payload == Slice(b, pos + 9, len) IN
              IF crc32fast_hash(payload) # Slice(b, pos + 5, 4)
              THEN [kind |-> "CrcMismatch", offset |-> pos, next |-> pos + 8 + len]
              ELSE LET d == deserialize(payload) IN
                   IF ~d.ok THEN [kind |-> "Serialize", next |-> pos + 8 + len]
                   ELSE [kind |-> "Some", offset |-> pos, event |-> d.event,
                         next |-> pos + 8 + len]

\* Mutant of next_record: the CRC is not compared.
next_record_without_crc_check(b, pos) ==
    IF pos + 4 > Len(b) THEN [kind |-> "None", next |-> IF pos > Len(b) THEN pos ELSE Len(b)]
    ELSE LET len == from_le_bytes(Slice(b, pos + 1, 4)) IN
         IF pos + 8 > Len(b) \/ pos + 8 + len > Len(b)
         THEN [kind |-> "Io", next |-> Len(b)]
         ELSE LET d == deserialize(Slice(b, pos + 9, len)) IN
              IF ~d.ok THEN [kind |-> "Serialize", next |-> pos + 8 + len]
              ELSE [kind |-> "Some", offset |-> pos, event |-> d.event,
                    next |-> pos + 8 + len]

\* Mutant of next_record: the record is reported at the offset behind it.
next_record_offset_behind(b, pos) ==
    IF pos + 4 > Len(b) THEN [kind |-> "None", next |-> IF pos > Len(b) THEN pos ELSE Len(b)]
    ELSE LET len == from_le_bytes(Slice(b, pos + 1, 4)) IN
         IF pos + 8 > Len(b) \/ pos + 8 + len > Len(b)
         THEN [kind |-> "Io", next |-> Len(b)]
         ELSE LET payload == Slice(b, pos + 9, len) IN
              IF crc32fast_hash(payload) # Slice(b, pos + 5, 4)
              THEN [kind |-> "CrcMismatch", offset |-> pos + 8 + len, next |-> pos + 8 + len]
              ELSE LET d == deserialize(payload) IN
                   IF ~d.ok THEN [kind |-> "Serialize", next |-> pos + 8 + len]
                   ELSE [kind |-> "Some", offset |-> pos + 8 + len, event |-> d.event,
                         next |-> pos + 8 + len]

\* EventLogReader::next_record at stream position pos: Ok(None) when the
\* length prefix cannot be read, an error when the crc or the payload is
\* short, CrcMismatch{offset}, a bincode error, or Ok(Some(ReadRecord)).
\* next is the stream position afterwards.
next_record(b, pos) ==
    IF pos + 4 > Len(b) THEN [kind |-> "None", next |-> IF pos > Len(b) THEN pos ELSE Len(b)]
    ELSE LET len == from_le_bytes(Slice(b, pos + 1, 4)) IN
         IF pos + 8 > Len(b) \/ pos + 8 + len > Len(b)
         THEN [kind |-> "Io", next |-> Len(b)]
         ELSE LET payload == Slice(b, pos + 9, len) IN
              IF crc32fast_hash(payload) # Slice(b, pos + 5, 4)
              THEN [kind |-> "CrcMismatch", offset |-> pos, next |-> pos + 8 + len]
              ELSE LET d == deserialize(payload) IN
                   IF ~d.ok THEN [kind |-> "Serialize", next |-> pos + 8 + len]
                   ELSE [kind |-> "Some", offset |-> pos, event |-> d.event,
                         next |-> pos + 8 + len]

(***************************************************************************)
(* write_log_and_index (cli/main.rs), one loop iteration per step, and a   *)
(* reader that opens the flushed log and calls next_record until it gets   *)
(* None or an error.                                                       *)
(***************************************************************************)
LogSymbols == sorted_symbols({events[k].symbol : k \in 1..Len(events)})

\* EventLogWriter::create, then IndexWriter::create, which refuses stride 0
\* (the log writer is dropped then, and its buffered header reaches the file).
WriterCreate ==
    /\ phase = "sequenced"
    /\ log' = create_log(LogSymbols, default_schema_hash)
    /\ woffset' = Len(create_log(LogSymbols, default_schema_hash))
    /\ IF stride = 0
       THEN phase' = "failed" /\ UNCHANGED idx
       ELSE phase' = "writing" /\ idx' = create_index(stride)
    /\ seen' = 0 /\ wi' = 0 /\ offs' = <<>>
    /\ UNCHANGED <<auxVars, seqVars, stride, readerVars, streamVars>>

\* for event in events { let offset = writer.append(event)?; idx.maybe_add(event, offset)?; }
WriteStep ==
    /\ phase = "writing" /\ wi < Len(events)
    /\ \E a \in {append(log, woffset, events[wi + 1])} :
       \E m \in {maybe_add(idx, stride, seen, events[wi + 1], a.ret)} :
           /\ log' = a.w /\ woffset' = a.offset
           /\ idx' = m.w /\ seen' = m.seen
           /\ offs' = Append(offs, a.ret)
    /\ wi' = wi + 1
    /\ UNCHANGED <<auxVars, seqVars, phase, stride, readerVars, streamVars>>

\* writer.flush()?; idx.flush()?
Flush ==
    /\ phase = "writing" /\ wi = Len(events)
    /\ phase' = "written"
    /\ UNCHANGED <<auxVars, seqVars, writerVars, readerVars, streamVars>>

ReaderOpen ==
    /\ phase = "written" /\ rstatus.kind = "closed"
    /\ \E h \in {open(log)} :
       IF h.ok
       THEN header' = h /\ rpos' = h.data_offset /\ rstatus' = Status("open", -1)
       ELSE rstatus' = Status("open_failed", -1) /\ UNCHANGED <<header, rpos>>
    /\ UNCHANGED <<auxVars, seqVars, phase, writerVars, readRecs, flipped, streamVars>>

NextRecord ==
    /\ rstatus.kind \in {"open", "Some"}
    /\ \E r \in {next_record(log, rpos)} :
       /\ rstatus' = Status(r.kind, IF r.kind \in {"Some", "CrcMismatch"}
                                    THEN r.offset ELSE -1)
       /\ rpos' = r.next
       /\ readRecs' = IF r.kind = "Some"
                      THEN Append(readRecs, [offset |-> r.offset, event |-> r.event])
                      ELSE readRecs
    /\ UNCHANGED <<auxVars, seqVars, phase, writerVars, header, flipped, streamVars>>

\* The rows of an ingested file: ingest_order is the row index.
LogRows == {[timestamp_ns |-> 1], [timestamp_ns |-> 2]}
            \X {[symbol |-> <<65>>, payload |-> Trade(5, 2)],
                [symbol |-> <<66, 66>>, payload |-> Quote(4, 1, 300, -1)]}

pending_of_rows(rows) ==
    [k \in 1..Len(rows) |->
        [timestamp_ns |-> rows[k][1].timestamp_ns, venue |-> <<88>>,
         symbol |-> rows[k][2].symbol, payload |-> rows[k][2].payload,
         ingest_order |-> k - 1]]

InitLog ==
    /\ pending \in {pending_of_rows(rows) : rows \in SeqOf(LogRows, MaxLogEvents)}
    /\ events = <<>>
    /\ phase = "pending"
    /\ stride \in 0..MaxStride
    /\ log = <<>> /\ woffset = 0 /\ idx = <<>> /\ seen = 0 /\ wi = 0 /\ offs = <<>>
    /\ IdleReader /\ IdleStream /\ IdleAux

NextLog ==
    \/ AssignSequences
    \/ WriterCreate
    \/ WriteStep
    \/ Flush
    \/ ReaderOpen
    \/ NextRecord

SpecLog == InitLog /\ [][NextLog]_vars

\* The timestamps a seek or a range bound is tried with.
SeekTimes == 0..3

\* C1: after a log and its index were written together, for every from_ns
\* no record with timestamp >= from_ns starts before seek_offset(from_ns).
C1_IndexLowerBound ==
    phase = "written" =>
        LET ix == open_index(idx) IN
        /\ ix.ok
        /\ \A from_ns \in SeekTimes :
               LET s == seek_offset(ix.entries, from_ns) IN
               s.some =>
                   \A k \in 1..Len(events) :
                       events[k].timestamp_ns >= from_ns => offs[k] >= s.value

\* C14: on the index written with a log, seek_offset gives None when there
\* are no entries, the offset of entry 0 when from_ns is before its
\* timestamp, and otherwise the offset of the last entry whose timestamp is
\* <= from_ns; on entries at 100 and 300 with offsets 0 and 200 it gives 0,
\* 0, 200 and 200 for 50, 250, 350 and 450.
C14_SeekOffset ==
    /\ phase = "written" =>
          LET ix == open_index(idx) IN
          /\ ix.ok
          /\ \A from_ns \in SeekTimes :
                LET s  == seek_offset(ix.entries, from_ns)
                    le == {k \in 1..Len(ix.entries) :
                              ix.entries[k].timestamp_ns <= from_ns}
                IN  IF ix.entries = <<>> THEN s = None
                    ELSE IF from_ns < ix.entries[1].timestamp_ns
                    THEN s = Some(ix.entries[1].byte_offset)
                    ELSE s = Some(ix.entries[CHOOSE k \in le :
                                                \A j \in le : j <= k].byte_offset)
    /\ LET entries == <<[timestamp_ns |-> 100, sequence |-> 1, byte_offset |-> 0],
                        [timestamp_ns |-> 300, sequence |-> 3, byte_offset |-> 200]>>
       IN  /\ seek_offset(entries, 50) = Some(0)
           /\ seek_offset(entries, 250) = Some(0)
           /\ seek_offset(entries, 350) = Some(200)
           /\ seek_offset(entries, 450) = Some(200)

\* An index of two entries at timestamps 1 and 2: a seek before the first
\* entry, one at the first and one behind the second.
C14_Witness ==
    /\ phase = "written"
    /\ LET ix == open_index(idx) IN
       /\ ix.ok /\ Len(ix.entries) = 2
       /\ ix.entries[1].timestamp_ns = 1 /\ ix.entries[2].timestamp_ns = 2
       /\ seek_offset(ix.entries, 0) = Some(ix.entries[1].byte_offset)
       /\ seek_offset(ix.entries, 1) = Some(ix.entries[1].byte_offset)
       /\ seek_offset(ix.entries, 3) = Some(ix.entries[2].byte_offset)
       /\ ix.entries[1].byte_offset < ix.entries[2].byte_offset

\* C15: while a log is written with stride s >= 1, after n maybe_add calls
\* the index holds ceil(n / s) entries and entry k (0-based) is the
\* timestamp, sequence and offset of call k * s, so call 0 always makes an
\* entry; with stride 0 IndexWriter::create fails and no index is written.
C15_StrideSampling ==
    /\ (phase \in {"writing", "written"} /\ stride >= 1) =>
          LET ix == open_index(idx) IN
          /\ ix.ok /\ ix.stride = stride /\ seen = wi
          /\ Len(ix.entries) = (wi + stride - 1) \div stride
          /\ \A k \in 0..(Len(ix.entries) - 1) :
                /\ k * stride < wi
                /\ ix.entries[k + 1] =
                      [timestamp_ns |-> events[k * stride + 1].timestamp_ns,
                       sequence     |-> events[k * stride + 1].sequence,
                       byte_offset  |-> offs[k * stride + 1]]
          /\ wi >= 1 => Len(ix.entries) >= 1
    /\ stride = 0 => phase \in {"pending", "sequenced", "failed"} /\ idx = <<>>

\* Three calls with stride 2 left two entries, for calls 0 and 2.
C15_Witness ==
    /\ phase = "written" /\ stride = 2 /\ wi = 3
    /\ LET ix == open_index(idx) IN
       /\ Len(ix.entries) = 2
       /\ ix.entries[2].byte_offset = offs[3]
       /\ ix.entries[2].sequence = events[3].sequence

\* C6: the records returned by successive next_record calls on a log the
\* ingest pipeline wrote have strictly increasing sequence numbers.
C6_LogSequenceMonotone ==
    \A k \in 1..(Len(readRecs) - 1) :
        readRecs[k].event.sequence < readRecs[k + 1].event.sequence

C6_Witness ==
    /\ rstatus.kind = "None" /\ Len(readRecs) = 3
    /\ readRecs[1].event.timestamp_ns = readRecs[2].event.timestamp_ns
    /\ pending[3].timestamp_ns < pending[1].timestamp_ns

\* C9: reading a flushed log back yields the appended events, field by
\* field and in append order, each at the offset append returned, with no
\* CRC or decoding error, and then None.
C9_RoundTrip ==
    flipped = NoFlip =>
        /\ rstatus.kind \in {"closed", "open", "Some", "None"}
        /\ Len(readRecs) <= Len(offs)
        /\ \A k \in 1..Len(readRecs) :
               /\ readRecs[k].event = events[k]
               /\ readRecs[k].offset = offs[k]
        /\ rstatus.kind = "None" => Len(readRecs) = Len(events)
        /\ (rstatus.kind = "Some" /\ Len(readRecs) = Len(events)) =>
               next_record(log, rpos).kind = "None"

C9_Witness ==
    /\ flipped = NoFlip /\ rstatus.kind = "None" /\ Len(readRecs) = 3
    /\ readRecs[1].event.payload.tag = "Quote"
    /\ readRecs[2].event.payload.tag = "Trade"
    /\ readRecs[3].offset = offs[3]

\* C28: when write_log_and_index has returned, every entry of the index
\* points at the start of a record of the log, at or behind data_offset,
\* the record read there carries the entry's timestamp_ns and sequence,
\* and from one entry to the next both byte_offset and sequence grow.
C28_LogIndexLockstep ==
    phase = "written" =>
        LET ix == open_index(idx)
            h  == open(log)
        IN  /\ ix.ok /\ h.ok
            /\ \A k \in 1..Len(ix.entries) :
                  LET e == ix.entries[k]
                      r == next_record(log, e.byte_offset)
                  IN  /\ e.byte_offset >= h.data_offset
                      /\ \E n \in 1..Len(offs) : offs[n] = e.byte_offset
                      /\ r.kind = "Some" /\ r.offset = e.byte_offset
                      /\ r.event.timestamp_ns = e.timestamp_ns
                      /\ r.event.sequence = e.sequence
                      /\ k < Len(ix.entries) =>
                            /\ e.byte_offset < ix.entries[k + 1].byte_offset
                            /\ e.sequence < ix.entries[k + 1].sequence

\* Three events, the first two with one timestamp, were written at stride
\* 1: three entries, the second pointing at the second record.
C28_Witness ==
    /\ phase = "written" /\ stride = 1 /\ Len(events) = 3
    /\ events[1].timestamp_ns = events[2].timestamp_ns
    /\ Len(open_index(idx).entries) = 3
    /\ open_index(idx).entries[2].byte_offset = offs[2]
    /\ next_record(log, offs[2]).event = events[2]

\* The bytes the symbol table of a header takes for the symbols S.
RECURSIVE SymbolBytes(_)
SymbolBytes(S) ==
    IF S = {} THEN 0
    ELSE LET s == CHOOSE x \in S : TRUE IN 1 + Len(s) + SymbolBytes(S \ {s})

\* Magic, version, schema hash, symbol count and symbol table.
HeaderLength == 8 + 2 + 8 + 4 + SymbolBytes({events[k].symbol : k \in 1..Len(events)})

\* C25: once the writer is created its offset counter is the number of
\* bytes it has written: the header length after create, which is the
\* data_offset a reader of the file computes; the k-th append returned the
\* offset at which the k-th record starts, and each record starts where
\* the one before ends, 8 bytes plus its payload further on, so the
\* returned offsets grow strictly and the records leave no gap or overlap.
C25_WriterOffset ==
    phase \in {"writing", "written"} =>
        /\ woffset = Len(log)
        /\ Len(offs) = wi
        /\ wi = 0 => woffset = HeaderLength
        /\ wi > 0 => offs[1] = HeaderLength
        /\ \A k \in 1..Len(offs) :
              LET len == Len(serialize(events[k])) IN
              /\ from_le_bytes(Slice(log, offs[k] + 1, 4)) = len
              /\ (IF k < Len(offs) THEN offs[k + 1] ELSE woffset) = offs[k] + 8 + len
              /\ k < Len(offs) => offs[k] < offs[k + 1]
        /\ header.open => header.data_offset = HeaderLength

\* Three events with two symbols were appended and the file was opened:
\* the reader's data_offset is the first returned offset, 22 bytes plus
\* the symbol table of A and BB.
C25_Witness ==
    /\ phase = "written" /\ Len(offs) = 3 /\ header.open
    /\ header.data_offset = offs[1] /\ offs[1] = 22 + 2 + 3
    /\ woffset = Len(log) /\ woffset > offs[3] + 8

(***************************************************************************)
(* A flushed log with one bit of one record's payload flipped on disk      *)
(* before it is opened.                                                    *)
(***************************************************************************)
CorruptRows == {[timestamp_ns |-> 1]}
                \X {[symbol |-> <<65>>, payload |-> Trade(5, 2)],
                    [symbol |-> <<66, 66>>, payload |-> Quote(4, 1, 300, -1)]}

MaxCorruptEvents == 2   \* longest log a bit is flipped in

InitCorrupt ==
    /\ pending \in {pending_of_rows(rows) : rows \in SeqOf(CorruptRows, MaxCorruptEvents)}
    /\ events = <<>>
    /\ phase = "pending"
    /\ IdleWriter /\ IdleReader /\ IdleStream /\ IdleAux

\* The payload of record r occupies offs[r] + 8 .. offs[r] + 8 + len - 1.
payload_len(r) == from_le_bytes(Slice(log, offs[r] + 1, 4))

FlipBit ==
    /\ phase = "written" /\ rstatus.kind = "closed" /\ flipped = NoFlip
    /\ \E r \in 1..Len(offs) : \E byte \in 1..payload_len(r) : \E bit \in 0..7 :
        /\ log' = [log EXCEPT ![offs[r] + 8 + byte] = Xor8(@, 2 ^ bit)]
        /\ flipped' = [rec |-> r, byte |-> byte, bit |-> bit]
    /\ UNCHANGED <<auxVars, seqVars, phase, stride, woffset, idx, seen, wi, offs,
                   rpos, header, readRecs, rstatus, streamVars>>

NextCorrupt ==
    \/ AssignSequences
    \/ WriterCreate
    \/ WriteStep
    \/ Flush
    \/ FlipBit
    \/ ReaderOpen
    \/ NextRecord

SpecCorrupt == InitCorrupt /\ [][NextCorrupt]_vars

\* C10: with one payload bit of a record flipped, the reader never returns
\* that record's event, and the call positioned at it fails with
\* CrcMismatch carrying the record's starting offset.
C10_CrcDetection ==
    flipped # NoFlip =>
        /\ Len(readRecs) < flipped.rec
        /\ rstatus.kind \notin {"closed", "open", "Some"} =>
               /\ rstatus = Status("CrcMismatch", offs[flipped.rec])
               /\ Len(readRecs) = flipped.rec - 1

C10_Witness ==
    /\ flipped.rec = 2 /\ flipped.byte = payload_len(2) /\ flipped.bit = 7
    /\ rstatus = Status("CrcMismatch", offs[2])
    /\ Len(readRecs) = 1

(***************************************************************************)
(* Range reads (replay/engine.rs read_events) over the files that          *)
(* write_log_and_index (cli/main.rs) produces.                             *)
(***************************************************************************)
\* The for loop of write_log_and_index from event k on; the buffers are
\* read at every step, so each step is evaluated in turn.
RECURSIVE write_loop(_, _, _, _, _, _, _)
write_loop(w, offset, ix, s, n, evs, k) ==
    IF Len(w) >= 0 /\ Len(ix) >= 0 /\ k <= Len(evs)
    THEN LET a == append(w, offset, evs[k])
             m == maybe_add(ix, s, n, evs[k], a.ret)
         IN  write_loop(a.w, a.offset, m.w, s, m.seen, evs, k + 1)
    ELSE [ok |-> TRUE, log |-> w, idx |-> ix]

\* write_log_and_index: the two files after the final flush.
write_log_and_index(evs, s) ==
    LET symbols == sorted_symbols({evs[k].symbol : k \in 1..Len(evs)})
        w       == create_log(symbols, default_schema_hash)
    IN  IF s = 0 THEN Failed
        ELSE write_loop(w, Len(w), create_index(s), s, 0, evs, 1)

\* Mutant of read_loop: a record at to_ns already ends the loop.
RECURSIVE read_loop_exclusive_to(_, _, _, _)
read_loop_exclusive_to(b, pos, from_ns, to_ns) ==
    LET r == next_record(b, pos) IN
    IF r.kind = "None" THEN [ok |-> TRUE, out |-> <<>>]
    ELSE IF r.kind # "Some" THEN Failed
    ELSE IF to_ns.some /\ r.event.timestamp_ns >= to_ns.value
    THEN [ok |-> TRUE, out |-> <<>>]
    ELSE LET rest == read_loop_exclusive_to(b, r.next, from_ns, to_ns) IN
         IF ~rest.ok THEN Failed
         ELSE IF from_ns.some /\ r.event.timestamp_ns < from_ns.value THEN rest
         ELSE [ok |-> TRUE, out |-> <<r.event>> \o rest.out]

\* The read loop of read_events from stream position pos: an error of
\* next_record is returned at once, a record past to_ns ends the loop, a
\* record before from_ns is skipped.
RECURSIVE read_loop(_, _, _, _)
read_loop(b, pos, from_ns, to_ns) ==
    LET r == next_record(b, pos) IN
    IF r.kind = "None" THEN [ok |-> TRUE, out |-> <<>>]
    ELSE IF r.kind # "Some" THEN Failed
    ELSE IF to_ns.some /\ r.event.timestamp_ns > to_ns.value
    THEN [ok |-> TRUE, out |-> <<>>]
    ELSE LET rest == read_loop(b, r.next, from_ns, to_ns) IN
         IF ~rest.ok THEN Failed
         ELSE IF from_ns.some /\ r.event.timestamp_ns < from_ns.value THEN rest
         ELSE [ok |-> TRUE, out |-> <<r.event>> \o rest.out]

\* Mutant of sort_by_key: descending.
RECURSIVE sort_by_key_descending(_)
sort_by_key_descending(v) ==
    IF v = <<>> THEN <<>>
    ELSE LET sorted == sort_by_key_descending(SubSeq(v, 1, Len(v) - 1))
             x == v[Len(v)]
             n == Cardinality({k \in 1..Len(sorted) : sorted[k].sequence >= x.sequence})
         IN  SubSeq(sorted, 1, n) \o <<x>> \o SubSeq(sorted, n + 1, Len(sorted))

\* out.sort_by_key(|e| e.sequence): a stable sort, each element is placed
\* behind the elements whose key is not greater.
RECURSIVE sort_by_key(_)
sort_by_key(v) ==
    IF v = <<>> THEN <<>>
    ELSE LET sorted == sort_by_key(SubSeq(v, 1, Len(v) - 1))
             x == v[Len(v)]
             n == Cardinality({k \in 1..Len(sorted) : sorted[k].sequence <= x.sequence})
         IN  SubSeq(sorted, 1, n) \o <<x>> \o SubSeq(sorted, n + 1, Len(sorted))

\* Mutant of read_events: the reader is kept between calls, so a later call
\* starts where the one before stopped, at the end of the file.
read_events_resuming(b, index, from_ns, to_ns) ==
    LET h == open(b) IN
    IF ~h.ok THEN Failed
    ELSE LET r == read_loop(b, IF reads = <<>> THEN h.data_offset ELSE Len(b),
                            from_ns, to_ns)
         IN  IF ~r.ok THEN Failed
             ELSE [ok |-> TRUE, events |-> sort_by_key(r.out)]

\* read_events: index is None when no index path is given or the file does
\* not exist, else Some(bytes of the index file).
read_events(b, index, from_ns, to_ns) ==
    LET h == open(b) IN
    IF ~h.ok THEN Failed
    ELSE LET ix == IF from_ns.some /\ index.some THEN open_index(index.value)
                   ELSE [ok |-> TRUE, entries |-> <<>>]
             at == IF from_ns.some /\ index.some /\ ix.ok
                   THEN seek_offset(ix.entries, from_ns.value) ELSE None
             r  == read_loop(b, IF at.some THEN at.value ELSE h.data_offset,
                             from_ns, to_ns)
         IN  IF ~ix.ok \/ ~r.ok THEN Failed
             ELSE [ok |-> TRUE, events |-> sort_by_key(r.out)]

\* to_proto: the pb::EventMessage of an event; event_type is not carried,
\* the payload becomes the oneof.
to_proto(event) ==
    [timestamp_ns |-> event.timestamp_ns,
     sequence     |-> event.sequence,
     venue        |-> event.venue,
     symbol       |-> event.symbol,
     payload      |-> IF event.payload.tag = "Trade"
                      THEN Some([oneof       |-> "Trade",
                                 price_ticks |-> event.payload.price_ticks,
                                 size        |-> event.payload.size])
                      ELSE Some([oneof  |-> "Quote",
                                 bid_px |-> event.payload.bid_px,
                                 bid_sz |-> event.payload.bid_sz,
                                 ask_px |-> event.payload.ask_px,
                                 ask_sz |-> event.payload.ask_sz])]

(***************************************************************************)
(* stream_with_pacing (replay/engine.rs), spawned by stream_events         *)
(* (replay/grpc.rs) with the sending half of a bounded channel; the        *)
(* consumer holds the receiving half.  A speed is a ratio <<num, den>>     *)
(* with den > 0.  The task takes one step from one await to the next.      *)
(***************************************************************************)
\* first_ts.get_or_insert(v): the value the option holds afterwards.
get_or_insert(opt, v) == IF opt.some THEN opt.value ELSE v

saturating_sub(a, b) == IF a >= b THEN a - b ELSE 0

\* Mutant of effective_speed: only a speed of zero is replaced.
effective_speed_zero_only(speed) == IF speed[1] = 0 THEN <<1, 1>> ELSE speed

\* let speed = if config.speed <= 0.0 { 1.0 } else { config.speed };
effective_speed(speed) == IF speed[1] <= 0 THEN <<1, 1>> ELSE speed

\* Mutant of target: the speed is not applied.
target_ignoring_speed(dt, speed) == dt

\* Duration::from_nanos((dt as f64 / speed) as u64): the cast drops the
\* fraction, so the target is the whole nanoseconds of dt / speed.
target(dt, speed) ==
    LET s == effective_speed(speed) IN (dt * s[2]) \div s[1]

\* Mutant of send: on a full channel the message is given up.
send_dropping_when_full(ch, closed, msg) ==
    IF closed THEN [kind |-> "Err", chan |-> ch]
    ELSE IF Len(ch) < ChanCap THEN [kind |-> "Ok", chan |-> Append(ch, msg)]
    ELSE [kind |-> "Ok", chan |-> ch]

\* Mutant of send: a dropped receiver goes unnoticed.
send_ignoring_closed(ch, closed, msg) ==
    IF Len(ch) < ChanCap THEN [kind |-> "Ok", chan |-> Append(ch, msg)]
    ELSE [kind |-> "Pending", chan |-> ch]

\* tx.send(msg).await polled once: Err when the receiver is gone, Ok when
\* the channel has room, else the task stays suspended.
send(ch, closed, msg) ==
    IF closed THEN [kind |-> "Err", chan |-> ch]
    ELSE IF Len(ch) < ChanCap THEN [kind |-> "Ok", chan |-> Append(ch, msg)]
    ELSE [kind |-> "Pending", chan |-> ch]

\* let (tx, rx) = mpsc::channel(..); tokio::spawn(stream_with_pacing(..)):
\* the task runs up to the loop head, taking start = Instant::now().
StartStream ==
    /\ phase = "streaming" /\ pc = "idle"
    /\ first_ts' = None /\ start' = now /\ si' = 0
    /\ pc' = "loop"
    /\ UNCHANGED <<auxVars, seqVars, phase, writerVars, readerVars, sEvents, config,
                   deadline, chan, rxClosed, sent, received, now>>

\* The loop head up to the await of this iteration: the loop ends, or the
\* event goes straight to send (max_speed), to yield_now (step_mode), or to
\* sleep_until(start + target).
Pace ==
    /\ pc = "loop"
    /\ IF si = Len(sEvents)
       THEN pc' = "done" /\ UNCHANGED <<auxVars, first_ts, deadline>>
       ELSE LET event == sEvents[si + 1] IN
            IF config.max_speed
            THEN pc' = "send" /\ UNCHANGED <<auxVars, first_ts, deadline>>
            ELSE IF config.step_mode
            THEN pc' = "yield" /\ UNCHANGED <<auxVars, first_ts, deadline>>
            ELSE LET baseline == get_or_insert(first_ts, event.timestamp_ns)
                     dt == saturating_sub(event.timestamp_ns, baseline)
                 IN  /\ first_ts' = Some(baseline)
                     /\ deadline' = start + target(dt, config.speed)
                     /\ pc' = "sleep"
    /\ UNCHANGED <<auxVars, seqVars, phase, writerVars, readerVars, sEvents, config, si,
                   start, chan, rxClosed, sent, received, now>>

\* tokio::task::yield_now().await returns.
Yield ==
    /\ pc = "yield"
    /\ pc' = "send"
    /\ UNCHANGED <<auxVars, seqVars, phase, writerVars, readerVars, sEvents, config, si,
                   first_ts, start, deadline, chan, rxClosed, sent, received, now>>

\* tokio::time::sleep_until(deadline).await returns, at the deadline or later.
Wake ==
    /\ pc = "sleep" /\ now >= deadline
    /\ pc' = "send"
    /\ UNCHANGED <<auxVars, seqVars, phase, writerVars, readerVars, sEvents, config, si,
                   first_ts, start, deadline, chan, rxClosed, sent, received, now>>

\* Mutant of Sent: a failed send is passed over and the loop goes on.
Sent_passing_over_err(r, waited) ==
    IF r.kind = "Err"
    THEN pc' = "loop" /\ si' = si + 1 /\ UNCHANGED <<auxVars, chan, sent>>
    ELSE /\ r.kind = "Ok"
         /\ chan' = r.chan
         /\ sent' = Append(sent, [msg |-> to_proto(sEvents[si + 1]), at |-> now,
                                  waited |-> waited])
         /\ si' = si + 1
         /\ pc' = "loop"

\* Mutant of Sent: after a send that went through the loop stays on the
\* same event.
Sent_without_advancing(r, waited) ==
    IF r.kind = "Err"
    THEN pc' = "aborted" /\ UNCHANGED <<auxVars, chan, sent, si>>
    ELSE /\ r.kind = "Ok"
         /\ chan' = r.chan
         /\ sent' = Append(sent, [msg |-> to_proto(sEvents[si + 1]), at |-> now,
                                  waited |-> waited])
         /\ si' = si
         /\ pc' = "loop"

\* The outcome of a send: break on Err, the next iteration on Ok.
Sent(r, waited) ==
    IF r.kind = "Err"
    THEN pc' = "aborted" /\ UNCHANGED <<auxVars, chan, sent, si>>
    ELSE /\ r.kind = "Ok"
         /\ chan' = r.chan
         /\ sent' = Append(sent, [msg |-> to_proto(sEvents[si + 1]), at |-> now,
                                  waited |-> waited])
         /\ si' = si + 1
         /\ pc' = "loop"

\* tx.send(Ok(to_proto(&event))).await: completes, or suspends on a full channel.
Send ==
    /\ pc = "send"
    /\ \E r \in {send(chan, rxClosed, to_proto(sEvents[si + 1]))} :
       IF r.kind = "Pending"
       THEN pc' = "blocked" /\ UNCHANGED <<auxVars, chan, sent, si>>
       ELSE Sent(r, FALSE)
    /\ UNCHANGED <<auxVars, seqVars, phase, writerVars, readerVars, sEvents, config,
                   first_ts, start, deadline, rxClosed, received, now>>

\* The suspended send is woken by room in the channel or by its closing.
SendResume ==
    /\ pc = "blocked"
    /\ \E r \in {send(chan, rxClosed, to_proto(sEvents[si + 1]))} :
       r.kind # "Pending" /\ Sent(r, TRUE)
    /\ UNCHANGED <<auxVars, seqVars, phase, writerVars, readerVars, sEvents, config,
                   first_ts, start, deadline, rxClosed, received, now>>

\* The consumer takes the next message from the stream.
Recv ==
    /\ ~rxClosed /\ chan # <<>>
    /\ received' = Append(received, Head(chan))
    /\ chan' = Tail(chan)
    /\ UNCHANGED <<auxVars, seqVars, phase, writerVars, readerVars, sEvents, config, pc,
                   si, first_ts, start, deadline, rxClosed, sent, now>>

\* The consumer drops the stream: the channel closes, what it buffered is lost.
DropRx ==
    /\ phase = "streaming" /\ ~rxClosed
    /\ rxClosed' = TRUE
    /\ chan' = <<>>
    /\ UNCHANGED <<auxVars, seqVars, phase, writerVars, readerVars, sEvents, config, pc,
                   si, first_ts, start, deadline, sent, received, now>>

\* A nanosecond passes.
Tick ==
    /\ phase = "streaming" /\ now < MaxTime
    /\ now' = now + 1
    /\ UNCHANGED <<auxVars, seqVars, phase, writerVars, readerVars, sEvents, config, pc,
                   si, first_ts, start, deadline, chan, rxClosed, sent, received>>

NextStream ==
    \/ StartStream
    \/ Pace
    \/ Yield
    \/ Wake
    \/ Send
    \/ SendResume
    \/ Recv
    \/ DropRx
    \/ Tick

\* The modes a stream runs in: max_speed, step_mode, real time.
Modes ==
    {[speed |-> <<1, 1>>, max_speed |-> TRUE,  step_mode |-> FALSE],
     [speed |-> <<1, 1>>, max_speed |-> FALSE, step_mode |-> TRUE],
     [speed |-> <<1, 1>>, max_speed |-> FALSE, step_mode |-> FALSE]}

\* Pacing is tried in step_mode and in real time at speed 2, 1/2 and 0
\* (which the code replaces by 1).
PaceModes ==
    {[speed |-> <<1, 1>>, max_speed |-> FALSE, step_mode |-> TRUE],
     [speed |-> <<2, 1>>, max_speed |-> FALSE, step_mode |-> FALSE],
     [speed |-> <<1, 2>>, max_speed |-> FALSE, step_mode |-> FALSE],
     [speed |-> <<0, 1>>, max_speed |-> FALSE, step_mode |-> FALSE]}

ReplayConfig(from_ns, to_ns, mode) ==
    [from_ns |-> from_ns, to_ns |-> to_ns, speed |-> mode.speed,
     max_speed |-> mode.max_speed, step_mode |-> mode.step_mode]

\* Rows of the ingested file a stream is served from.
StreamRows ==
    {<<[timestamp_ns |-> 1], [symbol |-> <<65>>, payload |-> Trade(5, 2)]>>,
     <<[timestamp_ns |-> 2], [symbol |-> <<66, 66>>, payload |-> Quote(4, 1, 300, -1)]>>}

\* The range bounds of a request.
RangeBounds == {None, Some(2)}

\* What stream_events can hand to the pacing task: read_events over the log
\* and index that the ingest pipeline wrote, with the bounds of the request.
StreamInputs ==
    UNION {
        UNION {
            {[read |-> read_events(w.log, index, from_ns, to_ns),
              from_ns |-> from_ns, to_ns |-> to_ns] :
                index \in {None, Some(w.idx)},
                from_ns \in RangeBounds, to_ns \in RangeBounds}
            : w \in {write_log_and_index(assign_sequences(pending_of_rows(rows)), s)}}
        : rows \in SeqOf(StreamRows, MaxStreamEvents), s \in 1..MaxStride}

InitStream ==
    /\ pending = <<>> /\ events = <<>>
    /\ phase = "streaming"
    /\ IdleWriter /\ IdleReader /\ IdleAux
    /\ \E in \in StreamInputs, mode \in Modes :
        /\ in.read.ok
        /\ sEvents = in.read.events
        /\ config = ReplayConfig(in.from_ns, in.to_ns, mode)
    /\ pc = "idle" /\ si = 0 /\ first_ts = None /\ start = 0 /\ deadline = 0
    /\ chan = <<>> /\ rxClosed = FALSE /\ sent = <<>> /\ received = <<>>
    /\ now = 0

SpecStream == InitStream /\ [][NextStream]_vars

\* Any vector of events can be given to stream_with_pacing itself: here the
\* timestamps are in any order.
PaceTimestamps == {1, 2}

PaceInputs ==
    {[k \in 1..Len(ts) |->
        [sequence |-> k, timestamp_ns |-> ts[k], venue |-> <<88>>,
         symbol |-> <<65>>, event_type |-> "Trade", payload |-> Trade(5, 2)]] :
     ts \in SeqOf(PaceTimestamps, MaxStreamEvents)}

InitPacing ==
    /\ pending = <<>> /\ events = <<>>
    /\ phase = "streaming"
    /\ IdleWriter /\ IdleReader /\ IdleAux
    /\ sEvents \in PaceInputs
    /\ config \in {ReplayConfig(None, None, mode) : mode \in PaceModes}
    /\ pc = "idle" /\ si = 0 /\ first_ts = None /\ start = 0 /\ deadline = 0
    /\ chan = <<>> /\ rxClosed = FALSE /\ sent = <<>> /\ received = <<>>
    /\ now = 0

SpecPacing == InitPacing /\ [][NextStream]_vars

StrictlyIncreasing(msgs) ==
    \A i \in 1..(Len(msgs) - 1) : msgs[i].sequence < msgs[i + 1].sequence

\* C2: within one stream served from a pipeline log through read_events, the
\* messages handed to the channel, those buffered in it and those the
\* consumer took are each in strictly increasing sequence order, in every
\* mode and at every point of every interleaving.
C2_StreamOrder ==
    /\ StrictlyIncreasing([k \in 1..Len(sent) |-> sent[k].msg])
    /\ StrictlyIncreasing(chan)
    /\ StrictlyIncreasing(received)

\* A range read through the index has streamed two events in real time, the
\* second after waiting for the consumer, who has taken both.
C2_Witness ==
    /\ config.from_ns.some /\ ~config.max_speed /\ ~config.step_mode
    /\ Len(sent) = 2 /\ sent[2].waited
    /\ Len(received) = 2
    /\ received[1].sequence = 2 /\ received[2].sequence = 3

\* C7: once the receiver is dropped no further message is accepted or
\* delivered and the loop does not advance; the send being attempted (at
\* once, when suspended, or after the wake of the sleep already scheduled)
\* ends the task, which stays ended.
C7_Cancellation ==
    [][rxClosed =>
        /\ sent' = sent /\ received' = received /\ chan' = chan /\ si' = si
        /\ (pc \in {"send", "blocked"} /\ pc' # pc => pc' = "aborted")
        /\ (pc = "sleep" /\ pc' # pc => pc' = "send")
        /\ (pc' = "loop" => pc \in {"loop", "idle"})
        /\ (pc \in {"aborted", "done"} => pc' = pc)]_vars

\* The receiver was dropped after one event of three; the task, in real
\* time, found the channel closed at its next send and stopped.
C7_Witness ==
    /\ rxClosed /\ pc = "aborted"
    /\ ~config.max_speed /\ ~config.step_mode
    /\ Len(sEvents) = 3 /\ si = 1 /\ Len(sent) = 1

\* C20: the channel never holds more messages than its capacity; a send
\* that finds it full suspends the task, which hands over nothing and does
\* not advance until the consumer has received (or gone); and while the
\* consumer is there, the messages it took followed by those buffered are
\* the events sent so far, each once and in order.
C20_Backpressure ==
    /\ [](/\ Len(chan) <= ChanCap
          /\ Len(sent) = si
          /\ \A k \in 1..Len(sent) : sent[k].msg = to_proto(sEvents[k])
          /\ ~rxClosed => received \o chan = [k \in 1..Len(sent) |-> sent[k].msg])
    /\ [][/\ (pc # "blocked" /\ pc' = "blocked") => Len(chan) = ChanCap
          /\ (pc = "blocked" /\ Len(chan) = ChanCap /\ ~rxClosed) =>
                 pc' = "blocked" /\ sent' = sent /\ si' = si
          /\ Len(sent') > Len(sent) =>
                 Len(chan) < ChanCap /\ chan' = Append(chan, sent'[Len(sent')].msg)
         ]_vars

\* At full speed three events went through the channel: the second and the
\* third send found it full and waited for the consumer, who took all three.
C20_Witness ==
    /\ config.max_speed /\ pc = "done" /\ ~rxClosed
    /\ Len(sent) = 3 /\ sent[2].waited /\ sent[3].waited
    /\ Len(received) = 3 /\ chan = <<>>

\* Real-time mode with a speed above zero.
RealTime == ~config.max_speed /\ ~config.step_mode /\ config.speed[1] > 0

\* dt of the k-th event: its distance from the first event's timestamp, 0
\* when it lies before it.
DtOf(k) ==
    IF sEvents[k].timestamp_ns >= sEvents[1].timestamp_ns
    THEN sEvents[k].timestamp_ns - sEvents[1].timestamp_ns
    ELSE 0

DeliveryTimesNonDecreasing ==
    \A k \in 1..(Len(sent) - 1) : sent[k].at <= sent[k + 1].at

ReplayTimelines ==
    {ts \in SeqOf(PaceTimestamps, MaxStreamEvents) :
        \A k \in 1..(Len(ts) - 1) : ts[k] <= ts[k + 1]}

\* The events of a log with these timestamps; up tells the numbering.
replay_log_events(ts, up) ==
    [k \in 1..Len(ts) |->
        LET sequence == IF up THEN k ELSE Len(ts) + 1 - k IN
        IF k % 2 = 1
        THEN [sequence |-> sequence, timestamp_ns |-> ts[k], venue |-> <<88>>,
              symbol |-> <<65>>, event_type |-> "Trade", payload |-> Trade(5, 2)]
        ELSE [sequence |-> sequence, timestamp_ns |-> ts[k], venue |-> <<88>>,
              symbol |-> <<66, 66>>, event_type |-> "Quote",
              payload |-> Quote(4, 1, 300, -1)]]

\* The bounds read_events is called with.
FromBounds == {None, Some(2)}
ToBounds == {None, Some(1)}

InitReplay ==
    /\ pending = <<>>
    /\ \E ts \in ReplayTimelines, up \in BOOLEAN, s \in {1, MaxStride} :
        /\ events = replay_log_events(ts, up)
        /\ stride = s
        /\ \E w \in {write_log_and_index(replay_log_events(ts, up), s)} :
            /\ log = w.log /\ idx = w.idx /\ woffset = Len(w.log)
        /\ seen = Len(ts) /\ wi = Len(ts)
    /\ offs = <<>>
    /\ phase = "replay"
    /\ IdleReader /\ IdleStream /\ IdleAux

\* One call of read_events on the files, with or without the index path;
\* the caller makes two.
ReadEvents ==
    /\ phase = "replay" /\ Len(reads) < 2
    /\ \E index \in {None, Some(idx)}, from_ns \in FromBounds, to_ns \in ToBounds :
       \E r \in {read_events(log, index, from_ns, to_ns)} :
           reads' = Append(reads, [indexed |-> index.some, from_ns |-> from_ns,
                                   to_ns |-> to_ns, result |-> r])
    /\ UNCHANGED <<seqVars, phase, writerVars, readerVars, streamVars, auxButReads>>

NextReplay == ReadEvents

SpecReplay == InitReplay /\ [][NextReplay]_vars

C27_IndexIsOptimisation ==
    (\A k \in 1..Len(events) : events[k].sequence = k) =>
        \A i, j \in 1..Len(reads) :
            (reads[i].from_ns = reads[j].from_ns /\ reads[i].to_ns = reads[j].to_ns)
                => reads[i].result = reads[j].result

InRange(e, from_ns, to_ns) ==
    /\ from_ns.some => e.timestamp_ns >= from_ns.value
    /\ to_ns.some => e.timestamp_ns <= to_ns.value

\* C13: a read_events call that starts at the data start (no index path, or
\* no lower bound) over a log in non-decreasing timestamp order succeeds and
\* returns exactly the records with from_ns <= timestamp_ns <= to_ns, an
\* absent bound being unbounded, in ascending order of sequence.
C13_RangeFilter ==
    \A i \in 1..Len(reads) :
        LET r == reads[i] IN
        ~r.indexed \/ ~r.from_ns.some =>
            /\ r.result.ok
            /\ \A k \in 1..Len(r.result.events) :
                  /\ InRange(r.result.events[k], r.from_ns, r.to_ns)
                  /\ \E n \in 1..Len(events) : events[n] = r.result.events[k]
            /\ Len(r.result.events) =
                  Cardinality({n \in 1..Len(events) : InRange(events[n], r.from_ns, r.to_ns)})
            /\ StrictlyIncreasing(r.result.events)

\* From a log with timestamps 1, 1, 2 numbered 3, 2, 1 a call without index
\* and with upper bound 1 returned the two records at timestamp 1, sequence
\* 2 before sequence 3; a call with lower bound 2 returned the third.
C13_Witness ==
    /\ Len(events) = 3 /\ events[1].sequence = 3
    /\ events[2].timestamp_ns = 1 /\ events[3].timestamp_ns = 2
    /\ Len(reads) = 2
    /\ ~reads[1].indexed /\ reads[1].from_ns = None /\ reads[1].to_ns = Some(1)
    /\ Len(reads[1].result.events) = 2
    /\ reads[1].result.events[1].sequence = 2
    /\ ~reads[2].indexed /\ reads[2].from_ns = Some(2) /\ reads[2].to_ns = None
    /\ Len(reads[2].result.events) = 1 /\ reads[2].result.events[1] = events[3]

(***************************************************************************)
(* Capture ingest (ingest/pcap_ingest.rs, ingest/itch.rs) on frames built  *)
(* as ingest/gen_pcap.rs builds them.  A frame is the packet's bytes.      *)
(***************************************************************************)
RECURSIVE to_be_bytes(_, _)
to_be_bytes(v, n) ==
    IF n = 0 THEN <<>> ELSE to_be_bytes(v \div 256, n - 1) \o <<v % 256>>

RECURSIVE from_be_bytes(_)
from_be_bytes(b) ==
    IF b = <<>> THEN 0
    ELSE 256 * from_be_bytes(SubSeq(b, 1, Len(b) - 1)) + b[Len(b)]

i64_to_be_bytes(v) ==
    IF v >= 0 THEN to_be_bytes(v, 8)
    ELSE [k \in 1..8 |-> 255 - to_be_bytes(-v - 1, 8)[k]]

i64_from_be_bytes(b) ==
    IF b[1] < 128 THEN from_be_bytes(b)
    ELSE -from_be_bytes([k \in 1..8 |-> 255 - b[k]]) - 1

\* pack_symbol: the first 8 bytes of the symbol, padded with spaces.
pack_symbol(symbol) ==
    [k \in 1..8 |-> IF k <= Len(symbol) THEN symbol[k] ELSE 32]

add_order_payload(ts_ns, symbol, side, price, size) ==
    to_be_bytes(ts_ns, 8) \o to_be_bytes(1, 4) \o pack_symbol(symbol)
        \o <<side>> \o i64_to_be_bytes(price) \o i64_to_be_bytes(size)

trade_payload(ts_ns, symbol, price, size) ==
    to_be_bytes(ts_ns, 8) \o to_be_bytes(2, 4) \o pack_symbol(symbol)
        \o i64_to_be_bytes(price) \o i64_to_be_bytes(size)

\* ipv4_checksum: the complement of the folded sum of the 16-bit words.
RECURSIVE fold_carries(_)
fold_carries(sum) ==
    IF sum \div 65536 # 0 THEN fold_carries((sum % 65536) + (sum \div 65536))
    ELSE sum

RECURSIVE sum_words(_, _)
sum_words(hdr, i) ==
    IF i + 1 < Len(hdr)
    THEN from_be_bytes(<<hdr[i + 1], hdr[i + 2]>>) + sum_words(hdr, i + 2)
    ELSE 0

ipv4_checksum(hdr) == 65535 - fold_carries(sum_words(hdr, 0))

\* build_udp_frame: Ethernet, IPv4 and UDP headers around the payload.
build_udp_frame(ident, payload) ==
    LET eth  == <<1, 0, 94, 1, 2, 3>> \o <<2, 0, 0, 0, 0, 1>> \o to_be_bytes(2048, 2)
        ip0  == <<69, 0>> \o to_be_bytes(20 + 8 + Len(payload), 2)
                  \o to_be_bytes(ident, 2) \o to_be_bytes(16384, 2)
                  \o <<64, 17>> \o to_be_bytes(0, 2)
                  \o <<10, 1, 1, 1>> \o <<239, 1, 2, 3>>
        csum == to_be_bytes(ipv4_checksum(ip0), 2)
        ip   == SubSeq(ip0, 1, 10) \o csum \o SubSeq(ip0, 13, 20)
        udp  == to_be_bytes(40000, 2) \o to_be_bytes(50000, 2)
                  \o to_be_bytes(8 + Len(payload), 2) \o to_be_bytes(0, 2)
    IN  eth \o ip \o udp \o payload

\* An error of a parse stage: the byte offset and the detail, a message
\* with the value it names.
ParseErr(offset, message, value) ==
    [ok |-> FALSE, offset |-> offset, detail |-> <<message, value>>]

\* extract_udp_payload; data[i] of the code is data[i + 1] here.
extract_udp_payload(data) ==
    IF Len(data) < 14 THEN ParseErr(0, "short ethernet header", 0)
    ELSE LET ethertype == from_be_bytes(<<data[12 + 1], data[13 + 1]>>) IN
    IF ethertype # 2048 THEN ParseErr(12, "unsupported ethertype", ethertype)
    ELSE IF Len(data) < 14 + 20 THEN ParseErr(14, "short ipv4 header", 0)
    ELSE LET version == data[14 + 1] \div 16
             ihl     == (data[14 + 1] % 16) * 4
         IN
    IF version # 4 THEN ParseErr(14, "unsupported ip version", version)
    ELSE IF ihl < 20 THEN ParseErr(14, "invalid ipv4 ihl", 0)
    ELSE IF Len(data) < 14 + ihl THEN ParseErr(14, "truncated ipv4 header", 0)
    ELSE LET proto == data[14 + 9 + 1] IN
    IF proto # 17 THEN ParseErr(14 + 9, "non-udp protocol", proto)
    ELSE LET udp_offset == 14 + ihl IN
    IF Len(data) < udp_offset + 8 THEN ParseErr(udp_offset, "short udp header", 0)
    ELSE LET udp_len == from_be_bytes(<<data[udp_offset + 4 + 1],
                                        data[udp_offset + 5 + 1]>>) IN
    IF udp_len < 8 THEN ParseErr(udp_offset + 4, "invalid udp length", 0)
    ELSE IF Len(data) < udp_offset + udp_len
    THEN ParseErr(udp_offset + 4, "truncated udp payload", 0)
    ELSE [ok |-> TRUE,
          payload |-> SubSeq(data, udp_offset + 8 + 1, udp_offset + udp_len)]

\* Reader::take at payload offset at: the field does not fit.
short_packet(payload, at, len) == at + len > Len(payload)

\* read_symbol: trailing spaces and NULs are trimmed.
RECURSIVE trim_end(_)
trim_end(s) ==
    IF s # <<>> /\ s[Len(s)] \in {32, 0} THEN trim_end(SubSeq(s, 1, Len(s) - 1))
    ELSE s

is_ascii(bytes) == \A k \in 1..Len(bytes) : bytes[k] < 128

\* parse_message; the fields are read in order, each error carries the
\* offset of the field that failed.
parse_message(payload) ==
    IF short_packet(payload, 0, 8) THEN ParseErr(0, "short packet need", 8)
    ELSE IF short_packet(payload, 8, 4) THEN ParseErr(8, "short packet need", 4)
    ELSE LET timestamp_ns == from_be_bytes(Slice(payload, 1, 8))
             msg_type     == from_be_bytes(Slice(payload, 9, 4))
         IN
    IF msg_type \notin {1, 2} THEN ParseErr(8, "unknown message type", msg_type)
    ELSE IF short_packet(payload, 12, 8) THEN ParseErr(12, "short packet need", 8)
    ELSE IF ~is_ascii(Slice(payload, 13, 8))
    THEN ParseErr(12, "symbol is not valid ASCII", 0)
    ELSE LET symbol == trim_end(Slice(payload, 13, 8)) IN
    IF msg_type = 1
    THEN IF short_packet(payload, 20, 1) THEN ParseErr(20, "short packet need", 1)
         ELSE IF payload[21] \notin {0, 1} THEN ParseErr(20, "invalid side", payload[21])
         ELSE IF short_packet(payload, 21, 8) THEN ParseErr(21, "short packet need", 8)
         ELSE IF short_packet(payload, 29, 8) THEN ParseErr(29, "short packet need", 8)
         ELSE IF Len(payload) # 37 THEN ParseErr(37, "trailing bytes", 0)
         ELSE [ok |-> TRUE,
               msg |-> [type |-> "AddOrder", timestamp_ns |-> timestamp_ns,
                        symbol |-> symbol,
                        side |-> IF payload[21] = 0 THEN "Bid" ELSE "Ask",
                        price_i64 |-> i64_from_be_bytes(Slice(payload, 22, 8)),
                        size_i64  |-> i64_from_be_bytes(Slice(payload, 30, 8))]]
    ELSE IF short_packet(payload, 20, 8) THEN ParseErr(20, "short packet need", 8)
         ELSE IF short_packet(payload, 28, 8) THEN ParseErr(28, "short packet need", 8)
         ELSE IF Len(payload) # 36 THEN ParseErr(36, "trailing bytes", 0)
         ELSE [ok |-> TRUE,
               msg |-> [type |-> "Trade", timestamp_ns |-> timestamp_ns,
                        symbol |-> symbol,
                        price_i64 |-> i64_from_be_bytes(Slice(payload, 21, 8)),
                        size_i64  |-> i64_from_be_bytes(Slice(payload, 29, 8))]]

\* TopBook::default()
TopBook == [bid_px |-> 0, bid_sz |-> 0, ask_px |-> 0, ask_sz |-> 0]

\* Mutant of book_after: the book is built afresh for every order.
book_after_from_default(bk, msg) ==
    IF msg.side = "Bid"
    THEN [TopBook EXCEPT !.bid_px = msg.price_i64, !.bid_sz = msg.size_i64]
    ELSE [TopBook EXCEPT !.ask_px = msg.price_i64, !.ask_sz = msg.size_i64]

\* books.entry(symbol).or_default(), then the side of the order is set.
book_after(bk, msg) ==
    LET book == IF msg.symbol \in DOMAIN bk THEN bk[msg.symbol] ELSE TopBook IN
    IF msg.side = "Bid"
    THEN [book EXCEPT !.bid_px = msg.price_i64, !.bid_sz = msg.size_i64]
    ELSE [book EXCEPT !.ask_px = msg.price_i64, !.ask_sz = msg.size_i64]

\* The state of the ingest loop: its five locals.
IngestState(pi, io, pend, iss, bk) ==
    [packet_index |-> pi, ingest_order |-> io, pending |-> pend,
     issues |-> iss, books |-> bk]

\* Mutant of ingest_packet: ingest_order advances for every packet, failed
\* or not; what the packet carried is left out.
ingest_packet_counting_every_packet(st, data, venue) ==
    LET pi == st.packet_index + 1
        u  == extract_udp_payload(data)
        m  == parse_message(u.payload)
    IN  IF ~u.ok \/ ~m.ok
        THEN IngestState(pi, st.ingest_order + 1, st.pending,
                 Append(st.issues, [packet_index |-> pi, offset |-> 0, detail |-> <<>>]),
                 st.books)
        ELSE IngestState(pi, st.ingest_order + 1,
                 Append(st.pending,
                     [timestamp_ns |-> m.msg.timestamp_ns, venue |-> venue,
                      symbol |-> m.msg.symbol, payload |-> Trade(0, 0),
                      ingest_order |-> st.ingest_order + 1]),
                 st.issues, st.books)

\* Mutant of ingest_packet: a packet that fails also empties the books.
ingest_packet_resetting_books_on_error(st, data, venue) ==
    LET pi == st.packet_index + 1
        u  == extract_udp_payload(data)
        m  == IF u.ok THEN parse_message(u.payload) ELSE u
    IN  IF ~m.ok
        THEN IngestState(pi, st.ingest_order, st.pending,
                 Append(st.issues, [packet_index |-> pi, offset |-> m.offset,
                                    detail |-> m.detail]),
                 <<>>)
        ELSE LET io == st.ingest_order + 1 IN
             IF m.msg.type = "Trade"
             THEN IngestState(pi, io,
                      Append(st.pending,
                          [timestamp_ns |-> m.msg.timestamp_ns, venue |-> venue,
                           symbol |-> m.msg.symbol,
                           payload |-> Trade(m.msg.price_i64, m.msg.size_i64),
                           ingest_order |-> io]),
                      st.issues, st.books)
             ELSE LET book == book_after(st.books, m.msg) IN
                  IngestState(pi, io,
                      Append(st.pending,
                          [timestamp_ns |-> m.msg.timestamp_ns, venue |-> venue,
                           symbol |-> m.msg.symbol,
                           payload |-> Quote(book.bid_px, book.bid_sz,
                                             book.ask_px, book.ask_sz),
                           ingest_order |-> io]),
                      st.issues,
                      [s \in DOMAIN st.books \cup {m.msg.symbol} |->
                          IF s = m.msg.symbol THEN book ELSE st.books[s]])

\* One iteration of the loop of ingest_pcap on the packet data.
ingest_packet(st, data, venue) ==
    LET pi == st.packet_index + 1
        u  == extract_udp_payload(data)
    IN  IF ~u.ok
        THEN IngestState(pi, st.ingest_order, st.pending,
                 Append(st.issues, [packet_index |-> pi, offset |-> u.offset,
                                    detail |-> u.detail]),
                 st.books)
        ELSE LET m == parse_message(u.payload) IN
             IF ~m.ok
             THEN IngestState(pi, st.ingest_order, st.pending,
                      Append(st.issues, [packet_index |-> pi, offset |-> m.offset,
                                         detail |-> m.detail]),
                      st.books)
             ELSE LET io == st.ingest_order + 1 IN
                  IF m.msg.type = "Trade"
                  THEN IngestState(pi, io,
                           Append(st.pending,
                               [timestamp_ns |-> m.msg.timestamp_ns, venue |-> venue,
                                symbol |-> m.msg.symbol,
                                payload |-> Trade(m.msg.price_i64, m.msg.size_i64),
                                ingest_order |-> io]),
                           st.issues, st.books)
                  ELSE LET book == book_after(st.books, m.msg) IN
                       IngestState(pi, io,
                           Append(st.pending,
                               [timestamp_ns |-> m.msg.timestamp_ns, venue |-> venue,
                                symbol |-> m.msg.symbol,
                                payload |-> Quote(book.bid_px, book.bid_sz,
                                                  book.ask_px, book.ask_sz),
                                ingest_order |-> io]),
                           st.issues,
                           [s \in DOMAIN st.books \cup {m.msg.symbol} |->
                               IF s = m.msg.symbol THEN book ELSE st.books[s]])

MaxFrames == 3       \* most packets in a capture

\* Packets that decode: a trade, a bid and an ask on one symbol, a bid on
\* another.
ValidFrames ==
    {build_udp_frame(7, trade_payload(1, <<65>>, 5, 2)),
     build_udp_frame(7, add_order_payload(2, <<66, 66>>, 0, 4, 1)),
     build_udp_frame(7, add_order_payload(2, <<66, 66>>, 1, 6, 3)),
     build_udp_frame(7, add_order_payload(3, <<65>>, 0, 9, 7))}

\* Packets that fail, at UDP extraction (three bytes only; TCP instead of
\* UDP; the last byte cut off) or at message decoding (message type 3; side
\* 2; a byte behind the message).
MalformedFrames ==
    LET trade == build_udp_frame(7, trade_payload(1, <<65>>, 5, 2)) IN
    {<<1, 2, 3>>,
     [trade EXCEPT ![14 + 9 + 1] = 6],
     SubSeq(trade, 1, Len(trade) - 1),
     build_udp_frame(7, to_be_bytes(1, 8) \o to_be_bytes(3, 4) \o pack_symbol(<<65>>)),
     build_udp_frame(7, add_order_payload(2, <<66, 66>>, 2, 4, 1)),
     build_udp_frame(7, trade_payload(1, <<65>>, 5, 2) \o <<0>>)}

InitPcap ==
    /\ frames \in SeqOf(ValidFrames \cup MalformedFrames, MaxFrames)
    /\ packet_index = 0 /\ ingest_order = 0 /\ issues = <<>> /\ books = <<>>
    /\ pending = <<>> /\ events = <<>>
    /\ phase = "capture"
    /\ IdleWriter /\ IdleReader /\ IdleStream /\ IdleButPcap

\* cap.next_packet() returned a packet: one iteration of the loop.
PcapNextPacket ==
    /\ phase = "capture" /\ packet_index < Len(frames)
    /\ \E st \in {ingest_packet(IngestState(packet_index, ingest_order, pending,
                                             issues, books),
                                frames[packet_index + 1], <<88>>)} :
        /\ packet_index' = st.packet_index
        /\ ingest_order' = st.ingest_order
        /\ pending' = st.pending
        /\ issues' = st.issues
        /\ books' = st.books
    /\ UNCHANGED <<events, phase, frames, writerVars, readerVars, streamVars,
                   auxButPcap>>

\* NoMorePackets: the issues are logged and the events are sequenced.
PcapEnd ==
    /\ phase = "capture" /\ packet_index = Len(frames)
    /\ events' = assign_sequences(pending)
    /\ phase' = "ingested"
    /\ UNCHANGED <<pending, pcapVars, writerVars, readerVars, streamVars,
                   auxButPcap>>

NextPcap ==
    \/ PcapNextPacket
    \/ PcapEnd

SpecPcap == InitPcap /\ [][NextPcap]_vars

\* C12: of the packets ingest_pcap has gone through, each malformed one has
\* exactly one issue (under its 1-based packet index) and no event, each
\* other one has one event and no issue; ingest_order counts the events
\* only, so the pending events carry 1, 2, 3, ... without a gap at a failed
\* packet; at the end there are as many events as well-formed packets.
C12_IssueIsolation ==
    LET done == 1..packet_index
        bad  == {k \in done : frames[k] \in MalformedFrames}
    IN  /\ \A k \in done :
              Cardinality({i \in 1..Len(issues) : issues[i].packet_index = k})
                  = IF k \in bad THEN 1 ELSE 0
        /\ Len(issues) = Cardinality(bad)
        /\ Len(pending) = packet_index - Cardinality(bad)
        /\ ingest_order = Len(pending)
        /\ \A n \in 1..Len(pending) : pending[n].ingest_order = n
        /\ phase = "ingested" => Len(events) = Len(frames) - Cardinality(bad)

\* A capture of three packets with a malformed one in the middle: two
\* events, one issue for packet 2, ingest_order 1 and 2 on either side.
C12_Witness ==
    /\ phase = "ingested" /\ Len(frames) = 3
    /\ frames[1] \in ValidFrames /\ frames[2] \in MalformedFrames
    /\ frames[3] \in ValidFrames
    /\ Len(events) = 2 /\ Len(issues) = 1 /\ issues[1].packet_index = 2
    /\ pending[1].ingest_order = 1 /\ pending[2].ingest_order = 2

\* C22: in every iteration on a packet that decodes, an AddOrder sets the
\* price and size of its side in the book of its symbol (all zeros when the
\* symbol is new), keeps the other side and the books of all other symbols,
\* and appends a Quote that equals the symbol's book after the update; a
\* Trade appends a Trade with the price and size of the message and leaves
\* every book as it was.
C22_BookEffect ==
    [][packet_index' = packet_index + 1 =>
        LET u == extract_udp_payload(frames[packet_index + 1])
            m == IF u.ok THEN parse_message(u.payload) ELSE u
        IN  m.ok =>
            LET msg  == m.msg
                old  == IF msg.symbol \in DOMAIN books THEN books[msg.symbol]
                        ELSE [bid_px |-> 0, bid_sz |-> 0, ask_px |-> 0, ask_sz |-> 0]
                evt  == pending'[Len(pending')]
            IN  /\ Len(pending') = Len(pending) + 1
                /\ SubSeq(pending', 1, Len(pending)) = pending
                /\ evt.symbol = msg.symbol /\ evt.timestamp_ns = msg.timestamp_ns
                /\ IF msg.type = "Trade"
                   THEN /\ books' = books
                        /\ evt.payload = [tag |-> "Trade", price_ticks |-> msg.price_i64,
                                          size |-> msg.size_i64]
                   ELSE /\ DOMAIN books' = DOMAIN books \cup {msg.symbol}
                        /\ \A s \in DOMAIN books \ {msg.symbol} : books'[s] = books[s]
                        /\ books'[msg.symbol] =
                              IF msg.side = "Bid"
                              THEN [bid_px |-> msg.price_i64, bid_sz |-> msg.size_i64,
                                    ask_px |-> old.ask_px, ask_sz |-> old.ask_sz]
                              ELSE [bid_px |-> old.bid_px, bid_sz |-> old.bid_sz,
                                    ask_px |-> msg.price_i64, ask_sz |-> msg.size_i64]
                        /\ evt.payload = [tag |-> "Quote",
                                          bid_px |-> books'[msg.symbol].bid_px,
                                          bid_sz |-> books'[msg.symbol].bid_sz,
                                          ask_px |-> books'[msg.symbol].ask_px,
                                          ask_sz |-> books'[msg.symbol].ask_sz]
     ]_vars

\* Three orders were ingested: a bid and an ask on BB and then a bid on A,
\* whose quote shows its own bid over an empty ask while the book of BB
\* holds both sides.
C22_Witness ==
    /\ packet_index = 3 /\ Len(pending) = 3
    /\ DOMAIN books = {<<65>>, <<66, 66>>}
    /\ books[<<66, 66>>] = [bid_px |-> 4, bid_sz |-> 1, ask_px |-> 6, ask_sz |-> 3]
    /\ pending[2].payload.bid_px = 4 /\ pending[2].payload.ask_px = 6
    /\ pending[3].payload = [tag |-> "Quote", bid_px |-> 9, bid_sz |-> 7,
                             ask_px |-> 0, ask_sz |-> 0]

\* The packet goes through both parse stages.
parses(data) ==
    LET u == extract_udp_payload(data) IN u.ok /\ parse_message(u.payload).ok

\* The loop of ingest_pcap run over the packets fs from the state st.
RECURSIVE ingest_frames(_, _, _)
ingest_frames(st, fs, venue) ==
    IF fs = <<>> THEN st
    ELSE ingest_frames(ingest_packet(st, Head(fs), venue), Tail(fs), venue)

\* C30: an iteration on a packet that fails to parse adds one issue under
\* the packet's index and leaves the books, the pending events and
\* ingest_order as they were; and after any number of packets the pending
\* events (the Quote snapshots among them), the books and ingest_order are
\* those of the same capture with the failing packets taken out.
C30_FailedFrameNoEffect ==
    /\ [](LET past  == SubSeq(frames, 1, packet_index)
              clean == ingest_frames(IngestState(0, 0, <<>>, <<>>, <<>>),
                                     SelectSeq(past, parses), <<88>>)
          IN  /\ pending = clean.pending
              /\ books = clean.books
              /\ ingest_order = clean.ingest_order
              /\ clean.issues = <<>>)
    /\ [][(packet_index' = packet_index + 1 /\ ~parses(frames[packet_index + 1])) =>
            /\ books' = books
            /\ pending' = pending
            /\ ingest_order' = ingest_order
            /\ Len(issues') = Len(issues) + 1
            /\ SubSeq(issues', 1, Len(issues)) = issues
            /\ issues'[Len(issues')].packet_index = packet_index + 1
         ]_vars

\* A bid on BB, then an AddOrder on BB with the invalid side 2, then an ask
\* on BB: the quote of the ask shows the bid of the first packet, and the
\* failed packet left one issue.
C30_Witness ==
    /\ packet_index = 3 /\ Len(pending) = 2 /\ Len(issues) = 1
    /\ parses(frames[1]) /\ ~parses(frames[2]) /\ parses(frames[3])
    /\ frames[2] = build_udp_frame(7, add_order_payload(2, <<66, 66>>, 2, 4, 1))
    /\ issues[1].packet_index = 2 /\ issues[1].detail = <<"invalid side", 2>>
    /\ pending[1].payload = Quote(4, 1, 0, 0)
    /\ pending[2].payload = Quote(4, 1, 6, 3)
    /\ books[<<66, 66>>] = [bid_px |-> 4, bid_sz |-> 1, ask_px |-> 6, ask_sz |-> 3]

(***************************************************************************)
(* The replay service (replay/grpc.rs): stream_events merges the request   *)
(* into the server's defaults, reads the range and spawns the pacing task. *)
(***************************************************************************)
merged_config(d, req) ==
    [from_ns   |-> IF req.from_ns = 0 THEN d.from_ns ELSE Some(req.from_ns),
     to_ns     |-> IF req.to_ns = 0 THEN d.to_ns ELSE Some(req.to_ns),
     speed     |-> IF req.speed[1] <= 0 THEN d.speed ELSE req.speed,
     max_speed |-> d.max_speed \/ req.max_speed,
     step_mode |-> d.step_mode \/ req.step_mode]

\* The defaults a server is started with.
ServerDefaults ==
    [from_ns : {None, Some(2)}, to_ns : {None, Some(1)},
     speed : {<<1, 1>>, <<1, 2>>}, max_speed : BOOLEAN, step_mode : BOOLEAN]

\* pb::StreamRequest: unset fields arrive as 0 and false; speed is a double.
StreamRequests ==
    [from_ns : {0, 1}, to_ns : {0, 2}, speed : {<<-1, 1>>, <<0, 1>>, <<2, 1>>},
     max_speed : BOOLEAN, step_mode : BOOLEAN]

\* serve_grpc on a log and index of two events at timestamps 1 and 2.
InitService ==
    /\ pending = <<>>
    /\ events = replay_log_events(<<1, 2>>, TRUE)
    /\ stride = 1
    /\ \E w \in {write_log_and_index(replay_log_events(<<1, 2>>, TRUE), 1)} :
        log = w.log /\ idx = w.idx
    /\ woffset = Len(log) /\ seen = 2 /\ wi = 2 /\ offs = <<>>
    /\ phase = "serving"
    /\ defaults \in ServerDefaults
    /\ request = None
    /\ IdleReader /\ IdleStream /\ IdleButSvc

\* ReplaySvc::stream_events up to the spawn of the pacing task.
StreamEvents ==
    /\ phase = "serving"
    /\ \E req \in StreamRequests :
       \E cfg \in {merged_config(defaults, req)} :
       \E r \in {read_events(log, Some(idx), cfg.from_ns, cfg.to_ns)} :
           /\ request' = Some(req)
           /\ config' = cfg
           /\ IF r.ok
              THEN sEvents' = r.events /\ phase' = "streaming"
              ELSE sEvents' = <<>> /\ phase' = "failed"
    /\ chan' = <<>> /\ rxClosed' = FALSE
    /\ UNCHANGED <<seqVars, writerVars, readerVars, pc, si, first_ts, start,
                   deadline, sent, received, now, defaults, auxButSvc>>

NextService == StreamEvents

SpecService == InitService /\ [][NextService]_vars

\* C16: the configuration stream_events runs with takes from_ns and to_ns
\* from the request when they are non-zero and from the defaults when they
\* are zero, the speed from the request when it is non-zero and from the
\* defaults otherwise, and max_speed and step_mode as the OR of the
\* request's flag and the default's.
C16_MergedConfig ==
    request.some =>
        LET req == request.value IN
        /\ config.from_ns = IF req.from_ns # 0 THEN Some(req.from_ns)
                            ELSE defaults.from_ns
        /\ config.to_ns = IF req.to_ns # 0 THEN Some(req.to_ns)
                          ELSE defaults.to_ns
        /\ config.speed = IF req.speed[1] # 0 THEN req.speed ELSE defaults.speed
        /\ config.max_speed = (req.max_speed \/ defaults.max_speed)
        /\ config.step_mode = (req.step_mode \/ defaults.step_mode)

(***************************************************************************)
(* Decimal prices (core/tick.rs).  A Decimal is a sign, a coefficient      *)
(* below 2^96 and a scale of at most 28 decimal places.  Coefficients are  *)
(* sequences of decimal digits, most significant first, without leading    *)
(* zeros; <<>> is 0.                                                       *)
(***************************************************************************)
RECURSIVE strip(_)
strip(d) == IF d # <<>> /\ d[1] = 0 THEN strip(Tail(d)) ELSE d

RECURSIVE big_of(_)
big_of(n) == IF n = 0 THEN <<>> ELSE Append(big_of(n \div 10), n % 10)

RECURSIVE int_of(_)
int_of(d) == IF d = <<>> THEN 0 ELSE 10 * int_of(SubSeq(d, 1, Len(d) - 1)) + d[Len(d)]

zeros(n) == IF n <= 0 THEN <<>> ELSE [k \in 1..n |-> 0]

\* a * 10^n
shift(a, n) == IF a = <<>> THEN <<>> ELSE a \o zeros(n)

\* -1, 0 or 1 as a is below, equal to or above b.
big_cmp(a, b) ==
    IF Len(a) # Len(b) THEN (IF Len(a) < Len(b) THEN -1 ELSE 1)
    ELSE IF a = b THEN 0
    ELSE LET k == CHOOSE i \in 1..Len(a) :
                      a[i] # b[i] /\ \A j \in 1..(i - 1) : a[j] = b[j]
         IN  IF a[k] < b[k] THEN -1 ELSE 1

\* a * k + carry for a small k.
RECURSIVE mul_small(_, _, _)
mul_small(a, k, carry) ==
    IF a = <<>> THEN big_of(carry)
    ELSE LET v == a[Len(a)] * k + carry
         IN  Append(mul_small(SubSeq(a, 1, Len(a) - 1), k, v \div 10), v % 10)

\* Quotient and remainder of a by a small k, digit by digit from position i.
RECURSIVE div_small(_, _, _, _, _)
div_small(a, k, i, q, r) ==
    IF i > Len(a) THEN [q |-> strip(q), r |-> r]
    ELSE LET v == r * 10 + a[i]
         IN  div_small(a, k, i + 1, Append(q, v \div k), v % k)

\* a - b for a >= b, from the last digit with a borrow.
RECURSIVE sub_digits(_, _, _)
sub_digits(a, b, borrow) ==
    IF a = <<>> THEN <<>>
    ELSE LET bd == IF b = <<>> THEN 0 ELSE b[Len(b)]
             v  == a[Len(a)] - bd - borrow
             rb == IF b = <<>> THEN <<>> ELSE SubSeq(b, 1, Len(b) - 1)
         IN  Append(sub_digits(SubSeq(a, 1, Len(a) - 1), rb, IF v < 0 THEN 1 ELSE 0),
                    IF v < 0 THEN v + 10 ELSE v)

big_sub(a, b) == strip(sub_digits(a, b, 0))

\* |a - b|
big_dist(a, b) == IF big_cmp(a, b) >= 0 THEN big_sub(a, b) ELSE big_sub(b, a)

Decimal(neg, m, s) == [neg |-> neg, m |-> m, s |-> s]

\* 2^96 - 1, the largest coefficient, and 28, the largest scale.
MAX_COEFFICIENT ==
    <<7, 9, 2, 2, 8, 1, 6, 2, 5, 1, 4, 2, 6, 4, 3, 3, 7, 5, 9, 3, 5, 4, 3, 9, 5, 0,
      3, 3, 5>>
MAX_SCALE == 28
\* i64::MAX
I64_MAX == <<9, 2, 2, 3, 3, 7, 2, 0, 3, 6, 8, 5, 4, 7, 7, 5, 8, 0, 7>>

\* The coefficient of price / tick at scale e, before rounding: quotient
\* and remainder of price.m * 10^(tick.s + e - price.s) by tick.m.  The
\* coefficient of a tick fits a machine word in the model.
quotient_at(price, tick, e) ==
    div_small(shift(price.m, tick.s + e - price.s), int_of(tick.m), 1, <<>>, 0)

\* The largest scale from e up at which the quotient's coefficient fits,
\* unless the division comes out even before.
RECURSIVE quotient_scale(_, _, _)
quotient_scale(price, tick, e) ==
    IF e = MAX_SCALE \/ quotient_at(price, tick, e).r = 0
       \/ big_cmp(quotient_at(price, tick, e + 1).q, MAX_COEFFICIENT) > 0
    THEN e
    ELSE quotient_scale(price, tick, e + 1)

\* Decimal / Decimal for a positive divisor: the quotient with as many
\* places as 96 bits and scale 28 allow, the last place rounded to nearest,
\* a tie to even.  A quotient above 2^96 - 1 makes the operator panic.
decimal_div(price, tick) ==
    LET e0 == IF price.s > tick.s THEN price.s - tick.s ELSE 0 IN
    IF big_cmp(quotient_at(price, tick, e0).q, MAX_COEFFICIENT) > 0
    THEN [panic |-> TRUE]
    ELSE LET e  == quotient_scale(price, tick, e0)
             d  == quotient_at(price, tick, e)
             up == \/ 2 * d.r > int_of(tick.m)
                   \/ 2 * d.r = int_of(tick.m) /\ d.q # <<>> /\ d.q[Len(d.q)] % 2 = 1
         IN  [panic |-> FALSE,
              value |-> Decimal(price.neg, IF up THEN mul_small(d.q, 1, 1) ELSE d.q, e)]

\* round_dp_with_strategy(0, MidpointAwayFromZero): the integer nearest to
\* d, a midpoint going away from zero.
round_dp_with_strategy(d) ==
    LET m     == zeros(d.s + 1 - Len(d.m)) \o d.m
        whole == SubSeq(m, 1, Len(m) - d.s)
        away  == d.s > 0 /\ m[Len(m) - d.s + 1] >= 5
    IN  Decimal(d.neg, strip(IF away THEN mul_small(whole, 1, 1) ELSE whole), 0)

\* Decimal::to_i64 of a whole number: None when it is outside i64.
to_i64(d) ==
    IF big_cmp(d.m, I64_MAX) > 0 /\ ~(d.neg /\ d.m = mul_small(I64_MAX, 1, 1))
    THEN None
    ELSE Some([neg |-> d.neg /\ d.m # <<>>, m |-> d.m])

\* TickTable::tick_for
tick_for(table, symbol) ==
    IF symbol \in DOMAIN table.symbols THEN table.symbols[symbol]
    ELSE table.default_tick

\* TickTable::price_to_ticks
price_to_ticks(table, symbol, price) ==
    LET tick == tick_for(table, symbol) IN
    IF tick.neg \/ tick.m = <<>> THEN [kind |-> "NonPositiveTick"]
    ELSE LET ratio == decimal_div(price, tick) IN
         IF ratio.panic THEN [kind |-> "panic"]
         ELSE LET rounded == to_i64(round_dp_with_strategy(ratio.value)) IN
              IF rounded.some THEN [kind |-> "Ok", ticks |-> rounded.value]
              ELSE [kind |-> "Overflow"]

MaxPriceScale == 3   \* most decimal places of the everyday prices tried

\* TickTable::uniform(0.05), TickTable::uniform(1) and a table from a
\* configuration with default tick 0.01 and tick 3 for BB.
TickTables ==
    {[default_tick |-> Decimal(FALSE, <<5>>, 2), symbols |-> <<>>],
     [default_tick |-> Decimal(FALSE, <<1>>, 0), symbols |-> <<>>],
     [default_tick |-> Decimal(FALSE, <<1>>, 2),
      symbols |-> [s \in {<<66, 66>>} |-> Decimal(FALSE, <<3>>, 0)]]}

\* Everyday prices with up to MaxPriceScale places, of either sign, and
\* prices at the limits: 28 places just below a midpoint, i64::MAX, one
\* above it, and the largest Decimal.
TickPrices ==
    {Decimal(neg, big_of(m), s) :
        neg \in BOOLEAN, m \in {0, 1, 5, 24, 25, 26, 1024, 1025, 1026, 10001},
        s \in 0..MaxPriceScale}
    \cup {Decimal(FALSE, <<4, 0, 2, 4>> \o [k \in 1..25 |-> 9], MAX_SCALE),
          Decimal(FALSE, <<1, 4>> \o [k \in 1..27 |-> 9], MAX_SCALE),
          Decimal(FALSE, I64_MAX, 0),
          Decimal(FALSE, mul_small(I64_MAX, 1, 1), 0),
          Decimal(FALSE, MAX_COEFFICIENT, 0)}

InitTick ==
    /\ tickTable \in TickTables
    /\ tickSymbol \in {<<65>>, <<66, 66>>}
    /\ tickPrice \in TickPrices
    /\ tickResult = None
    /\ pending = <<>> /\ events = <<>> /\ phase = "pricing"
    /\ IdleWriter /\ IdleReader /\ IdleStream /\ IdleButTick

\* table.price_to_ticks(symbol, price)
PriceToTicks ==
    /\ phase = "pricing" /\ tickResult = None
    /\ tickResult' = Some(price_to_ticks(tickTable, tickSymbol, tickPrice))
    /\ UNCHANGED <<seqVars, phase, writerVars, readerVars, streamVars,
                   tickTable, tickSymbol, tickPrice, auxButTick>>

NextTick == PriceToTicks

SpecTick == InitTick /\ [][NextTick]_vars

\* C17: price_to_ticks gives the integer n nearest to price / tick, a
\* midpoint going away from zero, so that |n * tick - price| <= tick / 2;
\* with tick 0.05 it gives 21 for 1.025, 20 for 1.024 and -21 for -1.025;
\* when that integer is outside i64 the call returns an error.  With
\* price = N / 10^a and tick = T / 10^b the comparisons are made on the
\* whole numbers N * 10^b and n * T * 10^a.
C17_TickRounding ==
    tickResult.some =>
        LET r    == tickResult.value
            tick == tick_for(tickTable, tickSymbol)
            N    == shift(tickPrice.m, tick.s)
            D    == shift(tick.m, tickPrice.s)
            big  == shift(mul_small(mul_small(I64_MAX, 2, 1), int_of(tick.m), 0),
                          tickPrice.s)
            out  == big_cmp(mul_small(N, 2, 0), big) >= 0
        IN  /\ r.kind \in {"Ok", "Overflow"}
            /\ r.kind = "Overflow" <=> out
            /\ r.kind = "Ok" =>
                 LET nD   == shift(mul_small(r.ticks.m, int_of(tick.m), 0), tickPrice.s)
                     dist == mul_small(big_dist(nD, N), 2, 0)
                 IN  /\ r.ticks.m # <<>> => r.ticks.neg = tickPrice.neg
                     /\ big_cmp(dist, D) <= 0
                     /\ big_cmp(dist, D) = 0 => big_cmp(nD, N) > 0
            /\ (tick = Decimal(FALSE, <<5>>, 2) /\ tickPrice.s = 3
                /\ tickPrice.m \in {big_of(1024), big_of(1025)}) =>
                 /\ r.kind = "Ok" /\ r.ticks.neg = tickPrice.neg
                 /\ r.ticks.m = IF tickPrice.m = big_of(1025) THEN big_of(21)
                                ELSE big_of(20)

(***************************************************************************)
(* A flushed log with one bit of its header's magic, version or            *)
(* schema_hash changed on disk before it is opened.                        *)
(***************************************************************************)
\* The 0-based position and the length of the header's fixed fields.
HeaderFields ==
    {[field |-> "magic", at |-> 0, len |-> 8],
     [field |-> "version", at |-> 8, len |-> 2],
     [field |-> "schema_hash", at |-> 10, len |-> 8]}

InitHeader ==
    /\ pending \in {pending_of_rows(rows) : rows \in SeqOf(CorruptRows, MaxCorruptEvents)}
    /\ events = <<>>
    /\ phase = "pending"
    /\ IdleWriter /\ IdleReader /\ IdleStream /\ IdleAux

TamperHeader ==
    /\ phase = "written" /\ rstatus.kind = "closed" /\ tampered = NoTamper
    /\ \E f \in HeaderFields : \E byte \in 1..f.len : \E bit \in 0..7 :
        /\ log' = [log EXCEPT ![f.at + byte] = Xor8(@, 2 ^ bit)]
        /\ tampered' = [field |-> f.field, byte |-> byte, bit |-> bit]
    /\ UNCHANGED <<seqVars, phase, stride, woffset, idx, seen, wi, offs,
                   readerVars, streamVars, auxButHeader>>

NextHeader ==
    \/ AssignSequences
    \/ WriterCreate
    \/ WriteStep
    \/ Flush
    \/ TamperHeader
    \/ ReaderOpen
    \/ NextRecord

SpecHeader == InitHeader /\ [][NextHeader]_vars

\* C18: when the magic, the version or the schema_hash of a log's header is
\* not the expected one, EventLogReader::open fails and no record is ever
\* returned from the file.
C18_HeaderRefusal ==
    tampered # NoTamper =>
        /\ rstatus.kind \in {"closed", "open_failed"}
        /\ readRecs = <<>>

(***************************************************************************)
(* The feature client and its determinism verifier (clients/feature.rs,    *)
(* clients/verify.rs).  An f64 is a ratio <<num, den>> with den > 0; text  *)
(* is a sequence of ASCII codes.                                           *)
(***************************************************************************)
rat_gt(a, b) == a[1] * b[2] > b[1] * a[2]
RECURSIVE gcd(_, _)
gcd(a, b) == IF b = 0 THEN a ELSE gcd(b, a % b)

\* The ratio in lowest terms.
rat(n, d) ==
    LET g == gcd(IF n < 0 THEN -n ELSE n, d) IN <<n \div g, d \div g>>

rat_add(a, b) == rat(a[1] * b[2] + b[1] * a[2], a[2] * b[2])
rat_mul(a, b) == rat(a[1] * b[1], a[2] * b[2])
rat_abs(a) == <<IF a[1] < 0 THEN -a[1] ELSE a[1], a[2]>>

\* f64::ln and f64::sqrt at the arguments that come up: every symbol of the
\* logs verified here keeps one mid, so ln is taken of 1 and sqrt of 0.
ln(x) == CASE x[1] = x[2] -> <<0, 1>>
sqrt(x) == CASE x[1] = 0 -> <<0, 1>>

\* Display of an unsigned and of a signed integer.
RECURSIVE fmt_u64(_)
fmt_u64(n) == IF n < 10 THEN <<48 + n>> ELSE Append(fmt_u64(n \div 10), 48 + (n % 10))

fmt_i64(n) == IF n < 0 THEN <<45>> \o fmt_u64(-n) ELSE fmt_u64(n)

\* {:.6} of an f64: the value rounded to six places.
fmt_6(x) ==
    LET a     == rat_abs(x)
        units == (2 * a[1] * 1000000 + a[2]) \div (2 * a[2])
        frac  == fmt_u64(units % 1000000)
    IN  (IF x[1] < 0 /\ units # 0 THEN <<45>> ELSE <<>>)
            \o fmt_u64(units \div 1000000) \o <<46>>
            \o [k \in 1..(6 - Len(frac)) |-> 48] \o frac

\* FeatureConfig of a seed.  The three draws of ChaCha8Rng are a function of
\* the seed; here they are the seed's residues, inside the ranges drawn from.
seeded_feature_config(s) ==
    [mid_window          |-> 8,
     ewma_alpha          |-> <<100 + (s % 250), 1000>>,
     spread_threshold    |-> 20 + (s % 10),
     imbalance_threshold |-> <<600 + (s % 200), 1000>>,
     vol_threshold       |-> <<20 + (s % 20), 1000>>]

\* BookState::default()
BookState ==
    [bid_px |-> 0, bid_sz |-> 0, ask_px |-> 0, ask_sz |-> 0, mids |-> <<>>,
     last_mid |-> None, ewma_var |-> <<0, 1>>]

\* compute_mid: [st, mid]
compute_mid(st, event, window) ==
    LET mid == IF st.bid_px > 0 /\ st.ask_px > 0 THEN <<st.bid_px + st.ask_px, 2>>
               ELSE IF event.payload.tag = "Trade" THEN <<event.payload.price_ticks, 1>>
               ELSE <<0, 1>>
        pushed == Append(st.mids, mid)
    IN  [st  |-> IF mid[1] > 0
                 THEN [st EXCEPT !.mids =
                          IF Len(pushed) > (IF window > 1 THEN window ELSE 1)
                          THEN Tail(pushed) ELSE pushed]
                 ELSE st,
         mid |-> mid]

compute_imbalance(st) ==
    LET total == st.bid_sz + st.ask_sz IN
    IF total = 0 THEN <<0, 1>>
    ELSE IF total > 0 THEN <<st.bid_sz - st.ask_sz, total>>
    ELSE <<st.ask_sz - st.bid_sz, -total>>

\* update_ewma: the state afterwards.
update_ewma(st, cfg, mid) ==
    IF mid[1] <= 0 THEN st
    ELSE LET prev == st.last_mid
             st1  == [st EXCEPT !.last_mid = Some(mid)]
         IN  IF ~prev.some THEN st1
             ELSE IF prev.value[1] <= 0 THEN st1
             ELSE LET ret == ln(<<mid[1] * prev.value[2], mid[2] * prev.value[1]>>)
                  IN  [st1 EXCEPT !.ewma_var =
                          rat_add(rat_mul(cfg.ewma_alpha, rat_mul(ret, ret)),
                                  rat_mul(<<cfg.ewma_alpha[2] - cfg.ewma_alpha[1],
                                            cfg.ewma_alpha[2]>>, st.ewma_var))]

RECURSIVE rat_sum(_)
rat_sum(xs) == IF xs = <<>> THEN <<0, 1>> ELSE rat_add(Head(xs), rat_sum(Tail(xs)))

\* signals.join("|")
RECURSIVE join(_, _)
join(parts, sep) ==
    IF parts = <<>> THEN <<>>
    ELSE IF Len(parts) = 1 THEN parts[1]
    ELSE parts[1] \o sep \o join(Tail(parts), sep)

\* The body of run_feature's loop behind compute_mid, m being its result:
\* the state of the symbol and the lines pushed to out.
feature_signals(spread, imbalance, vol, cfg) ==
    (IF spread > cfg.spread_threshold
     THEN <<(<<115, 112, 114, 101, 97, 100>>)>> ELSE <<>>)
    \o (IF rat_gt(rat_abs(imbalance), cfg.imbalance_threshold)
        THEN <<(<<105, 109, 98>>)>> ELSE <<>>)
    \o (IF rat_gt(vol, cfg.vol_threshold)
        THEN <<(<<118, 111, 108>>)>> ELSE <<>>)

\* "{} {} {} mid={:.6} spread={} imb={:.6} vol={:.6} signal={}"
feature_line(event, rolling_mid, spread, imbalance, vol, signals) ==
    fmt_u64(event.sequence) \o <<32>> \o fmt_u64(event.timestamp_ns)
    \o <<32>> \o event.symbol
    \o <<32, 109, 105, 100, 61>> \o fmt_6(rolling_mid)
    \o <<32, 115, 112, 114, 101, 97, 100, 61>> \o fmt_i64(spread)
    \o <<32, 105, 109, 98, 61>> \o fmt_6(imbalance)
    \o <<32, 118, 111, 108, 61>> \o fmt_6(vol)
    \o <<32, 115, 105, 103, 110, 97, 108, 61>> \o join(signals, <<124>>)

feature_out(event, rolling_mid, spread, imbalance, vol, signals) ==
    IF signals # <<>>
    THEN <<feature_line(event, rolling_mid, spread, imbalance, vol, signals)>>
    ELSE <<>>

feature_emit(event, cfg, st, mid, spread, imbalance) ==
    [st  |-> st,
     out |-> feature_out(event,
                 IF st.mids = <<>> THEN mid
                 ELSE rat_mul(rat_sum(st.mids), <<1, Len(st.mids)>>),
                 spread, imbalance, sqrt(st.ewma_var),
                 feature_signals(spread, imbalance, sqrt(st.ewma_var), cfg))]

feature_after_mid(event, cfg, m) ==
    feature_emit(event, cfg, update_ewma(m.st, cfg, m.mid), m.mid,
                 IF m.st.bid_px > 0 /\ m.st.ask_px > 0
                 THEN m.st.ask_px - m.st.bid_px ELSE 0,
                 compute_imbalance(m.st))

\* state.entry(symbol).or_default() with the quote's fields stored.
feature_entry(state, event) ==
    LET st == IF event.symbol \in DOMAIN state THEN state[event.symbol]
              ELSE BookState
    IN  IF event.payload.tag = "Quote"
        THEN [st EXCEPT !.bid_px = event.payload.bid_px,
                        !.bid_sz = event.payload.bid_sz,
                        !.ask_px = event.payload.ask_px,
                        !.ask_sz = event.payload.ask_sz]
        ELSE st

\* One iteration of run_feature's loop: [st, out].
feature_step(state, event, cfg) ==
    feature_after_mid(event, cfg,
                      compute_mid(feature_entry(state, event), event, cfg.mid_window))

\* run_feature from event k with the per-symbol states in state: the lines.
RECURSIVE feature_loop(_, _, _, _)
feature_next(evs, cfg, k, state, step) ==
    step.out \o feature_loop(evs, cfg, k + 1,
                             [s \in DOMAIN state \cup {evs[k].symbol} |->
                                 IF s = evs[k].symbol THEN step.st ELSE state[s]])

feature_loop(evs, cfg, k, state) ==
    IF k > Len(evs) THEN <<>>
    ELSE feature_next(evs, cfg, k, state, feature_step(state, evs[k], cfg))

\* Mutant of run_feature: the lines carry the number of verifications made
\* before, as a client with state kept across calls would.
run_feature_keeping_state(evs, cfg) ==
    [k \in 1..Len(feature_loop(evs, cfg, 1, <<>>)) |->
        feature_loop(evs, cfg, 1, <<>>)[k] \o <<32>> \o fmt_u64(Len(verdicts))]

run_feature(evs, cfg) == feature_loop(evs, cfg, 1, <<>>)

\* The two runs of the verifier.
feature_runs(evs, cfg) ==
    [run1 |-> join(run_feature(evs, cfg), <<10>>),
     run2 |-> join(run_feature(evs, cfg), <<10>>)]

\* verify_feature_determinism behind its call of read_events, read being
\* what that returned: the error or Ok, the two runs, and the bytes written
\* to out_path, None when nothing is written.
verify_feature_determinism(read, s) ==
    IF ~read.ok THEN [kind |-> "Replay", written |-> None]
    ELSE LET runs == feature_runs(read.events, seeded_feature_config(s)) IN
         IF runs.run1 # runs.run2
         THEN [kind |-> "NonDeterministic", run1 |-> runs.run1, run2 |-> runs.run2,
               written |-> None]
         ELSE [kind |-> "Ok", run1 |-> runs.run1, run2 |-> runs.run2,
               written |-> Some(runs.run1 \o <<10>>)]

MaxVerifyEvents == 3  \* longest log given to the verifier

\* The events of a verified log: trades of A, quotes of BB with a wide
\* spread, quotes of C with bid size 7 against ask size 1.
VerifyRows ==
    {[symbol |-> <<65>>, event_type |-> "Trade", payload |-> Trade(5, 2)],
     [symbol |-> <<66, 66>>, event_type |-> "Quote", payload |-> Quote(4, 1, 300, -1)],
     [symbol |-> <<67>>, event_type |-> "Quote", payload |-> Quote(4, 7, 7, 1)]}

verify_log_events(rows) ==
    [k \in 1..Len(rows) |->
        [sequence |-> k, timestamp_ns |-> k, venue |-> <<88>>,
         symbol |-> rows[k].symbol, event_type |-> rows[k].event_type,
         payload |-> rows[k].payload]]

\* Seeds whose configurations differ in what they signal.
Seeds == {0, 42, 199}

\* A log and its index are on disk; two verifications write to out_paths 1
\* and 2.
InitVerify ==
    /\ pending = <<>>
    /\ \E rows \in SeqOf(VerifyRows, MaxVerifyEvents) :
        /\ events = verify_log_events(rows)
        /\ \E w \in {write_log_and_index(verify_log_events(rows), 1)} :
            /\ log = w.log /\ idx = w.idx /\ woffset = Len(w.log)
        /\ seen = Len(rows) /\ wi = Len(rows)
    /\ stride = 1 /\ offs = <<>>
    /\ phase = "verify"
    /\ seed \in Seeds
    /\ outFiles = <<None, None>> /\ outWrites = <<0, 0>> /\ verdicts = <<>>
    /\ IdleReader /\ IdleStream /\ IdleButVerify

VerifyFeatureDeterminism ==
    /\ phase = "verify" /\ Len(verdicts) < 2
    /\ \E read \in {read_events(log, Some(idx), None, None)} :
       \E v \in {verify_feature_determinism(read, seed)} :
       LET out_path == Len(verdicts) + 1 IN
       /\ verdicts' = Append(verdicts, v)
       /\ IF v.written.some
          THEN /\ outFiles' = [outFiles EXCEPT ![out_path] = v.written]
               /\ outWrites' = [outWrites EXCEPT ![out_path] = @ + 1]
          ELSE UNCHANGED <<outFiles, outWrites>>
    /\ UNCHANGED <<seqVars, phase, writerVars, readerVars, streamVars, seed,
                   auxButVerify>>

NextVerify == VerifyFeatureDeterminism

SpecVerify == InitVerify /\ [][NextVerify]_vars

Elapse ==
    /\ pc = "sleep" /\ now < deadline
    /\ now' = now + 1
    /\ UNCHANGED <<auxVars, seqVars, phase, writerVars, readerVars, sEvents, config, pc,
                   si, first_ts, start, deadline, chan, rxClosed, sent, received>>

\* The steps of the pacing task itself.
TaskStep == StartStream \/ Pace \/ Yield \/ Wake \/ Send \/ SendResume

NextRun ==
    \/ StartStream
    \/ Pace
    \/ Yield
    \/ Wake
    \/ Send
    \/ SendResume
    \/ Recv
    \/ DropRx
    \/ Tick
    \/ Elapse

InitRun ==
    /\ pending = <<>> /\ events = <<>>
    /\ phase = "streaming"
    /\ IdleWriter /\ IdleReader /\ IdleAux
    /\ sEvents \in {replay_log_events(ts, TRUE) : ts \in ReplayTimelines}
    /\ config \in {ReplayConfig(None, None, mode) : mode \in Modes}
    /\ pc = "idle" /\ si = 0 /\ first_ts = None /\ start = 0 /\ deadline = 0
    /\ chan = <<>> /\ rxClosed = FALSE /\ sent = <<>> /\ received = <<>>
    /\ now = 0

SpecRun ==
    /\ InitRun /\ [][NextRun]_vars
    /\ WF_vars(TaskStep) /\ WF_vars(Elapse) /\ WF_vars(Recv)

\* The positions of the task inside the for loop.
Paced == {"loop", "yield", "sleep", "send", "blocked"}

\* C21: a run leaves Initial for the loop, leaves the loop only for Done or
\* Aborted, and stays in the terminal state it reached; it is Aborted only
\* by a send that found the receiver dropped, it is Done only when every
\* event of the list was sent, and it always reaches a terminal state.
C21_StreamStateMachine ==
    /\ [][/\ (pc = "idle" /\ pc' # pc) => pc' = "loop"
          /\ (pc \in Paced /\ pc' # pc) => pc' \in Paced \cup {"done", "aborted"}
          /\ pc \in {"done", "aborted"} => pc' = pc
          /\ (pc # "aborted" /\ pc' = "aborted") =>
                 rxClosed /\ pc \in {"send", "blocked"}
         ]_vars
    /\ [](pc = "done" =>
            /\ si = Len(sEvents)
            /\ [k \in 1..Len(sent) |-> sent[k].msg]
                 = [k \in 1..Len(sEvents) |-> to_proto(sEvents[k])])
    /\ <>[](pc \in {"done", "aborted"})

\* A run in real time over three events ended Done with the consumer still
\* there, the last send having waited for it.
C21_Witness ==
    /\ pc = "done" /\ ~rxClosed
    /\ ~config.max_speed /\ ~config.step_mode
    /\ Len(sEvents) = 3 /\ Len(sent) = 3 /\ sent[3].waited

(***************************************************************************)
(* CSV ingest, variant C (ingest/csv.rs): one record per row, already      *)
(* split into the fields of RowC and trimmed by the reader.  Text is a     *)
(* sequence of ASCII codes.                                                *)
(***************************************************************************)
IsDigits(s) == \A k \in 1..Len(s) : s[k] \in 48..57

DigitsOf(s) == [k \in 1..Len(s) |-> s[k] - 48]

\* str::trim: white space at both ends goes.
RECURSIVE trim(_)
trim(s) ==
    IF s # <<>> /\ s[1] = 32 THEN trim(Tail(s))
    ELSE IF s # <<>> /\ s[Len(s)] = 32 THEN trim(SubSeq(s, 1, Len(s) - 1))
    ELSE s

\* Decimal::from_str on plain notation: a sign, digits, at most one point.
from_str(price) ==
    LET signed == price # <<>> /\ price[1] \in {43, 45}
        body   == IF signed THEN Tail(price) ELSE price
        points == {k \in 1..Len(body) : body[k] = 46}
        digits == SelectSeq(body, LAMBDA c : c # 46)
    IN  IF digits = <<>> \/ ~IsDigits(digits) \/ Cardinality(points) > 1
           \/ Len(digits) > MAX_SCALE
        THEN None
        ELSE Some(Decimal(signed /\ price[1] = 45, strip(DigitsOf(digits)),
                          IF points = {} THEN 0
                          ELSE Len(body) - (CHOOSE k \in points : TRUE)))

\* The one element of a set of one: the value is computed once.
The(S) == CHOOSE x \in S : TRUE

\* An i64 of the program from its sign and digits.
as_i64(v) == IF v.neg THEN -int_of(v.m) ELSE int_of(v.m)

\* TickTable::price_str_to_ticks
price_str_to_ticks(table, symbol, price) ==
    The({IF ~px.some THEN [kind |-> "InvalidDecimal", value |-> price]
         ELSE The({IF r.kind = "Ok" THEN [kind |-> "Ok", ticks |-> as_i64(r.ticks)]
                   ELSE r :
                   r \in {price_to_ticks(table, symbol, px.value)}}) :
         px \in {from_str(price)}})

\* parse_i64_or_zero: empty after trimming is 0, else str::parse::<i64>.
parse_i64_or_zero(raw) ==
    LET v      == trim(raw)
        signed == v # <<>> /\ v[1] \in {43, 45}
        digits == IF signed THEN Tail(v) ELSE v
        neg    == signed /\ v[1] = 45
        m      == strip(DigitsOf(digits))
    IN  IF v = <<>> THEN [kind |-> "Ok", value |-> 0]
        ELSE IF digits = <<>> \/ ~IsDigits(digits)
                \/ (big_cmp(m, I64_MAX) > 0 /\ ~(neg /\ m = mul_small(I64_MAX, 1, 1)))
        THEN [kind |-> "Parse", message |-> "invalid integer", value |-> raw]
        ELSE [kind |-> "Ok", value |-> as_i64([neg |-> neg, m |-> m])]

\* parse_rfc3339_ns, on the timestamps of the first minute of 1970 in UTC
\* written 1970-01-01T00:00:SSZ; any other text is taken as not RFC 3339.
parse_rfc3339_ns(raw) ==
    LET prefix == <<49, 57, 55, 48, 45, 48, 49, 45, 48, 49, 84, 48, 48, 58, 48, 48, 58>>
    IN  IF Len(raw) = 20 /\ SubSeq(raw, 1, 17) = prefix /\ raw[20] = 90
           /\ raw[18] \in 48..53 /\ raw[19] \in 48..57
        THEN [kind |-> "Ok",
              value |-> (10 * (raw[18] - 48) + (raw[19] - 48)) * 1000000000]
        ELSE [kind |-> "Chrono", value |-> raw]

U64_MAX == <<1, 8, 4, 4, 6, 7, 4, 4, 0, 7, 3, 7, 0, 9, 5, 5, 1, 6, 1, 5>>

\* parse_mixed_ts_ns: RFC 3339 when the text holds a 'T', else milliseconds.
parse_mixed_ts_ns(raw) ==
    IF \E k \in 1..Len(raw) : raw[k] = 84 THEN parse_rfc3339_ns(raw)
    ELSE LET digits == IF raw # <<>> /\ raw[1] = 43 THEN Tail(raw) ELSE raw
             m      == strip(DigitsOf(digits))
         IN  IF digits = <<>> \/ ~IsDigits(digits) \/ big_cmp(m, U64_MAX) > 0
             THEN [kind |-> "Parse", message |-> "invalid timestamp", value |-> raw]
             ELSE IF big_cmp(shift(m, 6), U64_MAX) > 0
             THEN [kind |-> "Parse", message |-> "timestamp overflow", value |-> raw]
             ELSE [kind |-> "Ok", value |-> int_of(shift(m, 6))]

\* The type texts the match of parse_csv_c names.
TRADE_TYPES == {<<116, 114, 97, 100, 101>>, <<84, 114, 97, 100, 101>>,
                <<84, 82, 65, 68, 69>>}
QUOTE_TYPES == {<<113, 117, 111, 116, 101>>, <<81, 117, 111, 116, 101>>,
                <<81, 85, 79, 84, 69>>}

\* match row.type.as_str() { .. }: the payload of the row, or the error.
row_payload(row, row_idx, ticks) ==
    IF row.type \in TRADE_TYPES
    THEN LET price_ticks == price_str_to_ticks(ticks, row.symbol, row.price)
             size        == parse_i64_or_zero(row.size)
         IN  IF price_ticks.kind # "Ok" THEN price_ticks
             ELSE IF size.kind # "Ok" THEN size
             ELSE [kind |-> "Ok", payload |-> Trade(price_ticks.ticks, size.value)]
    ELSE IF row.type \in QUOTE_TYPES
    THEN LET bid_px == price_str_to_ticks(ticks, row.symbol, row.bid_px)
             ask_px == price_str_to_ticks(ticks, row.symbol, row.ask_px)
             bid_sz == parse_i64_or_zero(row.bid_sz)
             ask_sz == parse_i64_or_zero(row.ask_sz)
         IN  IF bid_px.kind # "Ok" THEN bid_px
             ELSE IF ask_px.kind # "Ok" THEN ask_px
             ELSE IF bid_sz.kind # "Ok" THEN bid_sz
             ELSE IF ask_sz.kind # "Ok" THEN ask_sz
             ELSE [kind |-> "Ok",
                   payload |-> Quote(bid_px.ticks, bid_sz.value,
                                     ask_px.ticks, ask_sz.value)]
    ELSE [kind |-> "Parse", message |-> "unknown row type", value |-> row.type,
          row |-> row_idx + 1]

\* The body of the for loop of parse_csv_c on the record at index row_idx (idx of the code, from 0).
csv_c_row(row, row_idx, venue, ticks) ==
    LET ts == parse_mixed_ts_ns(row.timestamp) IN
    IF ts.kind # "Ok" THEN ts
    ELSE LET p == row_payload(row, row_idx, ticks) IN
         IF p.kind # "Ok" THEN p
         ELSE [kind |-> "Ok",
               event |-> [timestamp_ns |-> ts.value, venue |-> venue,
                          symbol |-> row.symbol, payload |-> p.payload,
                          ingest_order |-> row_idx]]

MaxCsvRows == 2      \* most records in a CSV file

RowC(timestamp, symbol, type, price, size, bid_px, bid_sz, ask_px, ask_sz) ==
    [timestamp |-> timestamp, symbol |-> symbol, type |-> type, price |-> price,
     size |-> size, bid_px |-> bid_px, bid_sz |-> bid_sz, ask_px |-> ask_px,
     ask_sz |-> ask_sz]

\* Ways of writing the type column: trade and quote in lower case, with a
\* capital, in capitals and in another casing; a third word; nothing.
TradeSpellings == TRADE_TYPES \cup {<<116, 82, 65, 68, 69>>}
QuoteSpellings == QUOTE_TYPES \cup {<<113, 117, 111, 116, 69>>}
OtherSpellings == {<<111, 114, 100, 101, 114>>, <<>>}

\* A trade row at 1 ms with price 1.05 and size 2, a quote row at the first
\* second with 1.00 x 3 bid and 1.10 offered without a size; a row of
\* neither type carries nothing; a trade row whose price is no number.
CsvRows ==
    {RowC(<<49>>, <<65>>, ty, <<49, 46, 48, 53>>, <<50>>, <<>>, <<>>, <<>>, <<>>) :
        ty \in TradeSpellings}
    \cup {RowC(<<49, 57, 55, 48, 45, 48, 49, 45, 48, 49, 84, 48, 48, 58, 48, 48, 58,
                 48, 49, 90>>, <<66, 66>>, ty, <<>>, <<>>,
               <<49, 46, 48, 48>>, <<51>>, <<49, 46, 49, 48>>, <<>>) :
        ty \in QuoteSpellings}
    \cup {RowC(<<50>>, <<65>>, ty, <<>>, <<>>, <<>>, <<>>, <<>>, <<>>) :
        ty \in OtherSpellings}
    \cup {RowC(<<49>>, <<65>>, <<116, 114, 97, 100, 101>>, <<120>>, <<50>>,
               <<>>, <<>>, <<>>, <<>>)}

\* TickTable::uniform(0.05)
CsvTicks == [default_tick |-> Decimal(FALSE, <<5>>, 2), symbols |-> <<>>]

InitCsv ==
    /\ csvRows \in SeqOf(CsvRows, MaxCsvRows)
    /\ csvIdx = 0 /\ csvResult = None
    /\ pending = <<>> /\ events = <<>> /\ phase = "csv"
    /\ IdleWriter /\ IdleReader /\ IdleStream /\ IdleButCsv

\* One iteration of the for loop: the event is pushed, or the function
\* returns the error and out is dropped.
ParseCsvRow ==
    /\ phase = "csv" /\ csvResult = None /\ csvIdx < Len(csvRows)
    /\ \E r \in {csv_c_row(csvRows[csvIdx + 1], csvIdx, <<88>>, CsvTicks)} :
        IF r.kind = "Ok"
        THEN /\ pending' = Append(pending, r.event)
             /\ csvIdx' = csvIdx + 1
             /\ UNCHANGED csvResult
        ELSE /\ csvResult' = Some([ok |-> FALSE, err |-> r])
             /\ pending' = <<>>
             /\ UNCHANGED csvIdx
    /\ UNCHANGED <<events, phase, csvRows, writerVars, readerVars, streamVars,
                   auxButCsv>>

\* The records are exhausted: Ok(out).
ParseCsvEnd ==
    /\ phase = "csv" /\ csvResult = None /\ csvIdx = Len(csvRows)
    /\ csvResult' = Some([ok |-> TRUE, out |-> pending])
    /\ UNCHANGED <<seqVars, phase, csvRows, csvIdx, writerVars, readerVars,
                   streamVars, auxButCsv>>

NextCsv ==
    \/ ParseCsvRow
    \/ ParseCsvEnd

SpecCsv == InitCsv /\ [][NextCsv]_vars

\* The text in lower case.
Lower(s) == [k \in 1..Len(s) |-> IF s[k] \in 65..90 THEN s[k] + 32 ELSE s[k]]

IsTradeText(s) == Lower(s) = <<116, 114, 97, 100, 101>>
IsQuoteText(s) == Lower(s) = <<113, 117, 111, 116, 101>>

\* The fields the row's type calls for are numbers.
FieldsParse(row) == row.price # <<120>>

\* C23: parse_csv_c takes the type column in any casing: a file whose rows
\* all say trade or quote in some casing, with fields that parse, is
\* returned whole, each trade row as a Trade and each quote row as a Quote;
\* the first row of another type ends the call with the unknown-type error
\* that names the row, counted from 1, and no events are returned.
C23_TypeCaseInsensitive ==
    csvResult.some =>
        LET res   == csvResult.value
            typed == {k \in 1..Len(csvRows) :
                         IsTradeText(csvRows[k].type) \/ IsQuoteText(csvRows[k].type)}
            good  == {k \in typed : FieldsParse(csvRows[k])}
        IN  /\ good = 1..Len(csvRows) =>
                /\ res.ok /\ Len(res.out) = Len(csvRows)
                /\ \A k \in 1..Len(csvRows) :
                      res.out[k].payload.tag =
                          IF IsTradeText(csvRows[k].type) THEN "Trade" ELSE "Quote"
            /\ \A k \in 1..Len(csvRows) :
                  (k \notin typed /\ 1..(k - 1) \subseteq good) =>
                      /\ ~res.ok
                      /\ res.err = [kind |-> "Parse", message |-> "unknown row type",
                                    value |-> csvRows[k].type, row |-> k]
                      /\ pending = <<>>

(***************************************************************************)
(* A flushed log that lost its tail on disk before it is opened: the file  *)
(* ends somewhere behind the header, inside a record.                      *)
(***************************************************************************)
InitTrunc ==
    /\ pending \in {pending_of_rows(rows) : rows \in SeqOf(CorruptRows, MaxCorruptEvents)}
    /\ events = <<>>
    /\ phase = "pending"
    /\ IdleWriter /\ IdleReader /\ IdleStream /\ IdleAux

\* The file is cut to n bytes, the header staying whole.
Truncate ==
    /\ phase = "written" /\ rstatus.kind = "closed" /\ cut = None
    /\ offs # <<>>
    /\ \E n \in offs[1]..(Len(log) - 1) :
        /\ log' = SubSeq(log, 1, n)
        /\ cut' = Some(n)
    /\ UNCHANGED <<seqVars, phase, stride, woffset, idx, seen, wi, offs,
                   readerVars, streamVars, auxButTrunc>>

NextTrunc ==
    \/ AssignSequences
    \/ WriterCreate
    \/ WriteStep
    \/ Flush
    \/ Truncate
    \/ ReaderOpen
    \/ NextRecord

SpecTrunc == InitTrunc /\ [][NextTrunc]_vars

\* The offset behind record k as the writer laid it out.
RecordEnd(k) == IF k < Len(offs) THEN offs[k + 1] ELSE woffset

\* C24: on a log cut inside a record, the reader returns the records that
\* lie whole before the cut, each at its offset with the event written,
\* and then, at the cut record, None when fewer than four bytes of it are
\* left (no complete length prefix) and an error when the prefix is there
\* but the file ends inside the CRC field or the payload; nothing else is
\* ever returned.
C24_EndOfLog ==
    cut.some =>
        LET whole == Cardinality({k \in 1..Len(offs) : RecordEnd(k) <= cut.value})
            left  == cut.value - offs[whole + 1]
        IN  /\ Len(readRecs) <= whole
            /\ \A k \in 1..Len(readRecs) :
                  readRecs[k] = [offset |-> offs[k], event |-> events[k]]
            /\ rstatus.kind \notin {"closed", "open", "Some"} =>
                  /\ Len(readRecs) = whole
                  /\ IF left < 4 THEN rstatus.kind = "None"
                     ELSE rstatus.kind \in {"Io", "CrcMismatch", "Serialize"}

\* The second record of two was cut behind its length prefix and two bytes
\* of its CRC: the first record was returned, the next call failed.
C24_Witness ==
    /\ cut.some /\ Len(offs) = 2 /\ cut.value = offs[2] + 6
    /\ Len(readRecs) = 1 /\ rstatus.kind = "Io"

(***************************************************************************)
(* stream_with_pacing under each combination of the mode flags, and in     *)
(* real time at the speeds 1, 0 and -1.                                    *)
(***************************************************************************)
ModeConfigs ==
    {[speed |-> <<1, 1>>,  max_speed |-> TRUE,  step_mode |-> FALSE],
     [speed |-> <<1, 1>>,  max_speed |-> TRUE,  step_mode |-> TRUE],
     [speed |-> <<1, 1>>,  max_speed |-> FALSE, step_mode |-> TRUE],
     [speed |-> <<1, 1>>,  max_speed |-> FALSE, step_mode |-> FALSE],
     [speed |-> <<0, 1>>,  max_speed |-> FALSE, step_mode |-> FALSE],
     [speed |-> <<-1, 1>>, max_speed |-> FALSE, step_mode |-> FALSE]}

InitModes ==
    /\ pending = <<>> /\ events = <<>>
    /\ phase = "streaming"
    /\ IdleWriter /\ IdleReader /\ IdleAux
    /\ sEvents \in PaceInputs
    /\ config \in {ReplayConfig(None, None, mode) : mode \in ModeConfigs}
    /\ pc = "idle" /\ si = 0 /\ first_ts = None /\ start = 0 /\ deadline = 0
    /\ chan = <<>> /\ rxClosed = FALSE /\ sent = <<>> /\ received = <<>>
    /\ now = 0

SpecModes == InitModes /\ [][NextStream]_vars

\* C26: with max_speed the task goes from the loop head straight to the
\* send of every event, whatever step_mode says; with step_mode alone it
\* goes through one yield and from there to the send, and never sleeps; in
\* real time at speed 1 or at a speed of zero or below, the sleep before
\* event k ends at start plus the distance of its timestamp from the first
\* event's, and the event is not sent earlier.
C26_PacingModes ==
    /\ [](/\ config.max_speed => pc \notin {"yield", "sleep"}
          /\ (~config.max_speed /\ config.step_mode) => pc # "sleep"
          /\ (~config.max_speed /\ ~config.step_mode /\ config.speed[1] <= 0) =>
                 \A k \in 1..Len(sent) : sent[k].at >= start + DtOf(k))
    /\ [][/\ (pc = "loop" /\ pc' # pc /\ si < Len(sEvents)) =>
                 pc' = IF config.max_speed THEN "send"
                       ELSE IF config.step_mode THEN "yield" ELSE "sleep"
          /\ (pc = "yield" /\ pc' # pc) => pc' = "send"
          /\ (pc' = "send" /\ pc # pc') =>
                 pc = IF config.max_speed THEN "loop"
                      ELSE IF config.step_mode THEN "yield" ELSE "sleep"
          /\ (pc' = "sleep" /\ pc # "sleep"
                /\ (config.speed[1] <= 0 \/ config.speed = <<1, 1>>)) =>
                 deadline' = start + DtOf(si + 1)
          /\ (pc = "sleep" /\ pc' # pc) => now >= deadline
         ]_vars

\* At speed -1 the second event, one nanosecond behind the first in the
\* data, was sent one nanosecond after a start at time 1, its deadline.
C26_Witness ==
    /\ config.speed = <<-1, 1>> /\ ~config.max_speed /\ ~config.step_mode
    /\ start = 1 /\ Len(sent) = 2 /\ DtOf(2) = 1
    /\ sent[1].at = 1 /\ sent[2].at = 2 /\ deadline = 2

\* What the consumer is due from one run: the events given to
\* stream_with_pacing, each converted by to_proto, in their order.
Converted == [k \in 1..Len(sEvents) |-> to_proto(sEvents[k])]

IsPrefix(s, t) == Len(s) <= Len(t) /\ \A k \in 1..Len(s) : s[k] = t[k]

\* C29: in every pacing mode the messages the consumer has received are
\* the first ones of the converted event list, element for element, so no
\* event is skipped or delivered twice; while the consumer holds the
\* receiver the stream is not aborted, and once the task is through and the
\* channel is drained the consumer has the whole list; after an abort what
\* it received is still a prefix of the list.
C29_ExactlyOnce ==
    /\ IsPrefix(received, Converted)
    /\ ~rxClosed =>
          /\ pc # "aborted"
          /\ received \o chan = SubSeq(Converted, 1, si)
          /\ (pc = "done" /\ chan = <<>>) => received = Converted
    /\ pc = "aborted" => rxClosed /\ Len(received) <= si /\ si < Len(sEvents)

\* In real time three events with timestamps 2, 1, 2 were all received by
\* a consumer that kept the receiver; the stream is through.
C29_Witness ==
    /\ ~config.max_speed /\ ~config.step_mode /\ ~rxClosed
    /\ pc = "done" /\ chan = <<>>
    /\ Len(sEvents) = 3 /\ sEvents[1].timestamp_ns = 2 /\ sEvents[2].timestamp_ns = 1
    /\ received = Converted /\ received[2].sequence = 2

\* The consumer took the first of three events and dropped the stream; the
\* send of the second failed and the task broke off.
C29_AbortWitness ==
    /\ pc = "aborted" /\ Len(sEvents) = 3 /\ si = 1
    /\ received = <<to_proto(sEvents[1])>>

====
